---- MODULE Spec2Model ----
(***************************************************************************)
(* A model of the Ergenecore adapter (src/lib/Ergenecore.ts): deferred     *)
(* route registration, the one-time compilation of the dispatch table at   *)
(* start(), the per-request pipeline (middleware chains, validation,       *)
(* static-file serving, handler, error translation).                       *)
(*                                                                         *)
(* Specifications:                                                         *)
(*   Spec        registration / start / stop life cycle of one adapter     *)
(*   SpecRequest one request served by a started adapter with one route    *)
(*               and its global and route-local middlewares                *)
(*   SpecStatic  one request served by a static-serve route                *)
(*   SpecValidate one request served by a route with a validator           *)
(*   SpecUpgrade one request served by an upgrade route                    *)
(*   SpecCompile the compilation of one route under filtered global        *)
(*               middlewares                                               *)
(*   SpecWebsocket the connections of the websocket adapter: open, close,  *)
(*               heartbeat, connection limits, shutdown                    *)
(*   SpecSocketEvents the events of the connections delivered to the       *)
(*               services: open, message, close                            *)
(***************************************************************************)
EXTENDS Integers, Sequences, FiniteSets, TLC

VARIABLES
  \* ---- adapter state (fields of class Ergenecore) ----
  routeQueue,         \* this.routeQueue
  wsRouteQueue,       \* this.wsRouteQueue
  globalMiddlewares,  \* this.globalMiddlewares
  routesBuilt,        \* this.routesBuilt
  server,             \* this.server (the Bun server and the table it dispatches)
  errorHandler,       \* this.errorHandler (TRUE: one is registered)
  websockets,         \* websocketAdapter._websockets : namespace -> service
  \* ---- observation of the calls made on the adapter ----
  startResult,        \* outcome of the latest start() call
  buildCount,         \* number of buildBunRoutes() calls so far
  \* ---- one request being served by the compiled table ----
  pc,                 \* where the request is in its handler
  current,            \* the compiled handler Bun dispatched the request to
  req,                \* the request: its method, the path of its URL, its body
  list,               \* the middleware list executeMiddlewares is walking
  waiting,            \* number of middlewares of that list awaiting next()
  ret,                \* the result travelling back up the chain
  decision,           \* the abort decision a middleware of the chain made
  trace,              \* what ran for the request, in order
  response,           \* the response the handler returned to Bun
  logged,             \* what the adapter passed to its logger
  calls,              \* the calls made to hooks, the error handler, the server
  raised,             \* the error a catch block of the handler caught
  context,            \* the ErgenecoreContextWrapper of the request
  \* ---- the websocket adapter (class ErgenecoreWebsocketAdapter) ----
  connections,        \* the connections Bun has handed to the adapter
  activeConnections,  \* this.activeConnections : namespace -> connection ids
  connectionLimits,   \* this.connectionLimits : namespace -> limit
  heartbeatIntervals, \* this.heartbeatIntervals : connection id -> timer
  wsOptions,          \* the options prepareWebSocket was called with
  delivered,          \* the events each connection's service was called with
  socketIds,          \* ws.data.id of each connection
  timers              \* the interval timers of the runtime that are running

lifecycleVars == <<routeQueue, wsRouteQueue, globalMiddlewares, routesBuilt,
                   server, errorHandler, websockets, startResult, buildCount>>

requestVars == <<pc, current, req, list, waiting, ret, decision, trace,
                 response, logged, calls, raised, context>>

socketVars == <<connections, activeConnections, connectionLimits,
                heartbeatIntervals, wsOptions, delivered, socketIds, timers>>

vars == <<lifecycleVars, requestVars, socketVars>>

\* ------------------------------------------------------------------------
\* Bounds of the model
\* ------------------------------------------------------------------------
MaxRoutes == 2
MaxWsRoutes == 1
MaxGlobals == 1
MaxBuilds == 2

\* ------------------------------------------------------------------------
\* Paths.  A path is the string "/seg/seg" (lead = TRUE) or "seg/seg"
\* (lead = FALSE), kept as its segments.
\* ------------------------------------------------------------------------
Path(lead, segs) == [lead |-> lead, segs |-> segs]

NoPath == Path(FALSE, <<>>)

\* '/*' : the key of the catch-all 404 entry, and a legal route pattern
WildcardPath == Path(TRUE, <<"*">>)


\* Upgrade registrations: the route path and the namespace of its service
WsRegistrations ==
  { [path |-> Path(TRUE, <<"data">>),  namespace |-> Path(FALSE, <<"data">>)],
    [path |-> Path(FALSE, <<"data">>), namespace |-> Path(FALSE, <<"data">>)],
    [path |-> WildcardPath,            namespace |-> Path(FALSE, <<"any">>)] }


\* String.prototype.toUpperCase on a method name
toUpperCase(m) ==
  IF m = "get" THEN "GET" ELSE IF m = "post" THEN "POST" ELSE m

\* segment.startsWith(':') || segment.includes('*')
IsDynamicSegment(s) == s \in {":id", "*"}

\* Middlewares are told apart by their names
GlobalNames == <<"g1", "g2", "g3", "g4">>

LocalNames == <<"m1", "m2", "m3", "m4">>

\* StaticServeParams: the root directory, the path rewrite, and the hooks
\* (absent, or present with their override flag and with what their
\* handler throws: "none", "HttpException" or "Error")
StaticServeParams(root, rewrite, onFound, onNotFound) ==
  [enabled |-> TRUE, root |-> root, rewrite |-> rewrite,
   onFound |-> onFound, onNotFound |-> onNotFound]

NoHook == [present |-> FALSE, override |-> FALSE, throws |-> "none"]

Hook(override) == [present |-> TRUE, override |-> override, throws |-> "none"]

ThrowingHook(class) == [present |-> TRUE, override |-> FALSE, throws |-> class]

\* staticServe: undefined
NoStatic == [enabled |-> FALSE, root |-> <<>>, rewrite |-> "none",
             onFound |-> NoHook, onNotFound |-> NoHook]

\* The validation targets, in the order validateRequest walks them
VALIDATOR_METHODS == <<"body", "query", "param", "header">>

ValidationTargets == {VALIDATOR_METHODS[i] : i \in 1..Len(VALIDATOR_METHODS)}

\* What a route's validator holds for one target:
\*   absent        no entry, or an entry without a handle function
\*   noSchema      handle() returns nothing
\*   plain         handle() returns a schema
\*   hookResponse  handle() returns {schema, hook}, the hook returns a response
\*   hookNothing   handle() returns {schema, hook}, the hook returns nothing
TargetKinds == {"absent", "noSchema", "plain", "hookResponse", "hookNothing"}

\* validator: an object with an entry per target
Validator(targets) == [enabled |-> TRUE, targets |-> targets]

\* validator: undefined
NoValidator == [enabled |-> FALSE, targets |-> [k \in ValidationTargets |-> "absent"]]

\* a validator with a plain schema for the body
BodyValidator ==
  Validator([k \in ValidationTargets |-> IF k = "body" THEN "plain" ELSE "absent"])

\* Route registrations (RouteParams without the handler, which is told
\* apart by the id the registration gets)
RouteParams(method, path, middlewares, validator, staticServe) ==
  [method |-> method, path |-> path, middlewares |-> middlewares,
   validator |-> validator, staticServe |-> staticServe]

RouteRegistrations ==
  { RouteParams("get",  Path(TRUE, <<"data">>),        <<>>, NoValidator,   NoStatic),
    RouteParams("post", Path(TRUE, <<"data">>),        <<>>, NoValidator,   NoStatic),
    RouteParams("get",  Path(TRUE, <<"data", ":id">>), <<>>, BodyValidator, NoStatic),
    RouteParams("get",  WildcardPath,                  <<>>, NoValidator,
                StaticServeParams(<<"w", "a">>, "none", NoHook, NoHook)) }

\* Global middleware filters (GlobalMiddlewareConfig['routes']); hasConfig =
\* FALSE is use(middleware) without a config
NoConfig == [hasConfig |-> FALSE, include |-> {}, exclude |-> {}]

GlobalConfigs ==
  { NoConfig,
    [hasConfig |-> TRUE, include |-> {Path(TRUE, <<"data", "*">>)}, exclude |-> {}] }

\* ------------------------------------------------------------------------
\* Generic helpers
\* ------------------------------------------------------------------------
Put(f, k, v) == [x \in (DOMAIN f) \cup {k} |-> IF x = k THEN v ELSE f[x]]

EmptyMap == [x \in {} |-> 0]

IsPrefix(s, t) == Len(s) <= Len(t) /\ SubSeq(t, 1, Len(s)) = s

RECURSIVE Uniq(_)
\* the distinct elements of a sequence, in order of first occurrence
\* (the key order of a JavaScript Map filled by has/set)
Uniq(s) ==
  IF s = <<>> THEN <<>>
  ELSE LET rest == Uniq(SubSeq(s, 1, Len(s) - 1))
           last == s[Len(s)]
       IN IF \E i \in 1..Len(rest) : rest[i] = last THEN rest ELSE Append(rest, last)

MapSeq(Op(_), s) == [i \in 1..Len(s) |-> Op(s[i])]

\* ------------------------------------------------------------------------
\* Global middleware filtering
\* ------------------------------------------------------------------------
\* A glob pattern matches a path: a trailing '*' stands for the remaining
\* segments, every other segment must be equal
matchPattern(path, pattern) ==
  LET n == Len(pattern.segs)
  IN IF n > 0 /\ pattern.segs[n] = "*"
     THEN /\ path.lead = pattern.lead
          /\ Len(path.segs) >= n
          /\ SubSeq(path.segs, 1, n - 1) = SubSeq(pattern.segs, 1, n - 1)
     ELSE path = pattern

\* shouldApplyMiddleware(path, config) of @asenajs/asena/utils/patternMatcher
shouldApplyMiddleware(path, config) ==
  IF ~config.hasConfig THEN TRUE
  ELSE /\ ~(\E p \in config.exclude : matchPattern(path, p))
       /\ (config.include = {} \/ \E p \in config.include : matchPattern(path, p))

\* every global middleware, whatever its filter
getEveryGlobalMiddleware(path) == MapSeq(LAMBDA g : g.middleware, globalMiddlewares)

\* the middlewares of globalMiddlewares whose config applies, in order
getGlobalMiddlewaresForPath(path) ==
  MapSeq(LAMBDA g : g.middleware,
         SelectSeq(globalMiddlewares, LAMBDA g : shouldApplyMiddleware(path, g.config)))

\* ------------------------------------------------------------------------
\* Route compilation
\* ------------------------------------------------------------------------
extractBasePath(path) ==
  LET n    == Len(path.segs)
      dyn  == {i \in 1..n : IsDynamicSegment(path.segs[i])}
      stop == IF dyn = {} THEN n + 1 ELSE CHOOSE i \in dyn : \A j \in dyn : i <= j
      base == SubSeq(path.segs, 1, stop - 1)
  IN IF base = <<>> THEN Path(TRUE, <<>>) ELSE Path(path.lead, base)

\* Map<basePath, routes[]> as the sequence of its values in key order
groupRoutesByBasePath(routes) ==
  LET keys == Uniq(MapSeq(LAMBDA r : extractBasePath(r.path), routes))
  IN [i \in 1..Len(keys) |->
        SelectSeq(routes, LAMBDA r : extractBasePath(r.path) = keys[i])]

\* a classification that overlooks the validator
isSimpleRouteIgnoringValidator(route) ==
  /\ Len(getGlobalMiddlewaresForPath(route.path)) = 0
  /\ Len(route.middlewares) = 0
  /\ ~route.staticServe.enabled

isSimpleRoute(route) ==
  /\ Len(getGlobalMiddlewaresForPath(route.path)) = 0
  /\ Len(route.middlewares) = 0
  /\ ~route.validator.enabled
  /\ ~route.staticServe.enabled

\* The compiled handlers are closures; a closure is kept as what it captured
\* (its kind, the route it serves, the applicable global middlewares, and
\* for a fast-path handler the variant chosen when it was created)
Closure(kind, target, globals, variant) ==
  [kind |-> kind, target |-> target, globals |-> globals, variant |-> variant]

NoClosure == Closure("none", 0, <<>>, "")

createFastPathHandler(route) ==
  Closure("fast", route.id, <<>>, IF errorHandler THEN "custom" ELSE "default")

createRouteHandler(route) ==
  Closure("full", route.id, getGlobalMiddlewaresForPath(route.path), "")

createWebSocketUpgradeHandler(wsRoute) ==
  Closure("upgrade", wsRoute.id, getGlobalMiddlewaresForPath(wsRoute.path), "")

\* A value of the routes object: a method table, or a bare function
MethodsEntry(methods) == [isFunction |-> FALSE, methods |-> methods]

NotFoundFunction == [isFunction |-> TRUE, methods |-> EmptyMap]

RECURSIVE AddPathRoutes(_, _)
\* for (const route of pathRoutes) routes[path][method] = handler
AddPathRoutes(methods, pathRoutes) ==
  IF pathRoutes = <<>> THEN methods
  ELSE LET route == Head(pathRoutes)
           h == IF isSimpleRoute(route) THEN createFastPathHandler(route)
                ELSE createRouteHandler(route)
       IN AddPathRoutes(Put(methods, toUpperCase(route.method), h), Tail(pathRoutes))

RECURSIVE BuildPaths(_, _, _)
\* for (const [path, pathRoutes] of routesByPath) { routes[path] = {}; ... }
BuildPaths(routes, groupRoutes, paths) ==
  IF paths = <<>> THEN routes
  ELSE LET p == Head(paths)
           pathRoutes == SelectSeq(groupRoutes, LAMBDA r : r.path = p)
       IN BuildPaths(Put(routes, p, MethodsEntry(AddPathRoutes(EmptyMap, pathRoutes))),
                     groupRoutes, Tail(paths))

RECURSIVE BuildGroups(_, _)
\* for (const [_, groupRoutes] of routeGroups) { ... }
BuildGroups(routes, groups) ==
  IF groups = <<>> THEN routes
  ELSE LET groupRoutes == Head(groups)
           paths == Uniq(MapSeq(LAMBDA r : r.path, groupRoutes))
       IN BuildGroups(BuildPaths(routes, groupRoutes, paths), Tail(groups))

\* the queued routes compiled, without a catch-all
buildBunRoutesWithoutCatchAll == BuildGroups(EmptyMap, groupRoutesByBasePath(routeQueue))

\* the queued routes compiled, then routes['/*'] = the 404 function
buildBunRoutes ==
  Put(BuildGroups(EmptyMap, groupRoutesByBasePath(routeQueue)),
      WildcardPath, NotFoundFunction)

\* wsRoute.path.startsWith('/') ? wsRoute.path : `/${wsRoute.path}`
normalizeWsPath(path) == Path(TRUE, path.segs)

RECURSIVE AddWsRoutes(_, _)
AddWsRoutes(routes, wsRoutes) ==
  IF wsRoutes = <<>> THEN routes
  ELSE LET wsRoute == Head(wsRoutes)
           p == normalizeWsPath(wsRoute.path)
           old == IF p \in DOMAIN routes THEN routes[p].methods ELSE EmptyMap
       IN AddWsRoutes(
            Put(routes, p, MethodsEntry(Put(old, "GET", createWebSocketUpgradeHandler(wsRoute)))),
            Tail(wsRoutes))

buildWebSocketRoutes == AddWsRoutes(EmptyMap, wsRouteQueue)

\* Object.keys(wsRoutes): insertion order
wsRouteKeys == Uniq(MapSeq(LAMBDA w : normalizeWsPath(w.path), wsRouteQueue))

\* the path named by the error checkPathCollisions throws, if it throws
checkPathCollisions(httpRoutes, wsRoutes) ==
  LET keys == wsRouteKeys
      hits == {i \in 1..Len(keys) :
                 /\ keys[i] \in DOMAIN httpRoutes
                 /\ "GET" \in DOMAIN httpRoutes[keys[i]].methods}
  IN IF hits = {} THEN [thrown |-> FALSE, path |-> NoPath]
     ELSE [thrown |-> TRUE, path |-> keys[CHOOSE i \in hits : \A j \in hits : i <= j]]

RECURSIVE MergeKeys(_, _, _)
MergeKeys(merged, wsRoutes, keys) ==
  IF keys = <<>> THEN merged
  ELSE LET p == Head(keys)
           base == IF p \in DOMAIN merged THEN merged[p].methods ELSE EmptyMap
           both == [m \in (DOMAIN base) \cup (DOMAIN wsRoutes[p].methods) |->
                      IF m \in DOMAIN wsRoutes[p].methods
                      THEN wsRoutes[p].methods[m] ELSE base[m]]
       IN MergeKeys(Put(merged, p, MethodsEntry(both)), wsRoutes, Tail(keys))

\* { ...httpRoutes }, then every ws path merged in method by method; the
\* spread of a function value contributes no methods
mergeRoutes(httpRoutes, wsRoutes) == MergeKeys(httpRoutes, wsRoutes, wsRouteKeys)

\* ------------------------------------------------------------------------
\* Responses, exceptions, results
\* ------------------------------------------------------------------------
\* A Response: its status, its body (a string, kept as its tokens) and its
\* headers (name/value pairs)
Response(status, body, headers) ==
  [status |-> status, body |-> body, headers |-> headers]

NoResponse == Response(0, <<>>, {})

JsonHeaders == {<<"Content-Type", "application/json">>}

\* JSON.stringify(value): the serialised text of a value
stringify(value) == <<"json">> \o value

\* Thrown values: instances of HttpException, MiddlewareResponseError, or
\* a plain Error
Thrown(class, message, status, body, isObject, headers, resp) ==
  [class |-> class, message |-> message, status |-> status, body |-> body,
   isObject |-> isObject, headers |-> headers, response |-> resp]

NoError == Thrown("none", <<>>, 0, <<>>, FALSE, {}, NoResponse)

\* new HttpException(status, body, {headers}); super(message) with the
\* message the body or its serialisation
HttpException(status, body, isObject, headers) ==
  Thrown("HttpException", IF isObject THEN stringify(body) ELSE body,
         status, body, isObject, headers, NoResponse)

\* new MiddlewareResponseError(response)
MiddlewareResponseError(resp) ==
  Thrown("MiddlewareResponseError", <<"MIDDLEWARE_RETURNED_RESPONSE">>,
         0, <<>>, FALSE, {}, resp)

\* new Error(message)
Error(message) == Thrown("Error", message, 0, <<>>, FALSE, {}, NoResponse)

ChainStopped == <<"MIDDLEWARE_CHAIN_STOPPED">>

\* headers.has('Content-Type')
HasHeader(headers, name) == \E h \in headers : h[1] = name

\* HttpException.getResponse()
getResponse(e) ==
  Response(e.status,
           IF e.isObject THEN stringify(e.body) ELSE e.body,
           IF e.isObject /\ ~HasHeader(e.headers, "Content-Type")
           THEN e.headers \cup JsonHeaders ELSE e.headers)

\* What a promise of boolean | Response settles to: true, false, a
\* response, or a rejection carrying the thrown value
Result(tag, resp, error) == [tag |-> tag, response |-> resp, error |-> error]

NoResult == Result("none", NoResponse, NoError)

ResultTrue == Result("true", NoResponse, NoError)

ResultFalse == Result("false", NoResponse, NoError)

ResultResponse(resp) == Result("response", resp, NoError)

ResultThrow(error) == Result("throw", NoResponse, error)

\* A request: its method and the segments of its URL path as sent
RequestWithBody(method, url, body) == [method |-> method, url |-> url, body |-> body]

\* a request without a body
Request(method, url) == RequestWithBody(method, url, "none")

\* what the body of a request can be: nothing, a JSON text, a text that is
\* not JSON
Bodies == {"none", "json", "malformed"}

NoRequest == Request("", <<>>)

\* One call of the logger
Log(level, message) == [level |-> level, message |-> message]

\* One entry of the trace: what happened, and to which middleware
Event(ev, mw) == [ev |-> ev, mw |-> mw]

\* One call the adapter made on something it was given (a hook, the global
\* error handler, the server): the callee and the argument next to the
\* context
Call(fn, arg) == [fn |-> fn, arg |-> arg]

\* ------------------------------------------------------------------------
\* Life cycle of the adapter
\* ------------------------------------------------------------------------
NoServer == [exists |-> FALSE, running |-> FALSE, routes |-> EmptyMap]

\* what the latest start() call did: whether the routes were already built
\* when it was called, the path its error names if it threw, and whether
\* the server it returned was running
NoStart == [called |-> FALSE, wasBuilt |-> FALSE, threw |-> FALSE,
            errorPath |-> NoPath, returnedRunning |-> FALSE]

StartOutcome(wasBuilt, threw, errorPath, running) ==
  [called |-> TRUE, wasBuilt |-> wasBuilt, threw |-> threw,
   errorPath |-> errorPath, returnedRunning |-> running]

\* new ErgenecoreContextWrapper(req): no value set yet; seen is what each
\* stage that was handed the context found in it
NewContext == [values |-> EmptyMap, seen |-> <<>>,
               bodyRead |-> FALSE, bodyCache |-> "unset"]

\* a setValue that stores nothing
setValueDropped(ctx, key, value) == ctx

\* context.setValue(key, value)
setValue(ctx, key, value) == [ctx EXCEPT !.values = Put(@, key, value)]

\* for (const key in req.params) context.setValue(`param:${key}`, ...);
\* Bun puts the segment matched by ':id' into req.params
injectParams(ctx, pattern, segs) ==
  LET dyn == {i \in 1..Len(pattern.segs) : pattern.segs[i] = ":id"}
  IN IF dyn = {} THEN ctx
     ELSE setValue(ctx, "param:id", segs[CHOOSE i \in dyn : TRUE])

\* what a getBody() call does: the wrapper afterwards, the data returned,
\* the error thrown
BodyRead(ctx, data, error) == [ctx |-> ctx, data |-> data, error |-> error]

Cached(ctx, data) ==
  BodyRead([ctx EXCEPT !.bodyRead = TRUE, !.bodyCache = data], data, NoError)

\* ErgenecoreContextWrapper.getBody of lib/ErgenecoreContextWrapper.ts:
\* request.json(), and {} if that throws (no body, or not JSON)
getBodyReturningEmpty(ctx, body) ==
  IF ctx.bodyRead THEN BodyRead(ctx, ctx.bodyCache, NoError)
  ELSE IF body = "json" THEN Cached(ctx, "parsed")
  ELSE Cached(ctx, "{}")

InvalidJson ==
  HttpException(400, <<"error", "Invalid JSON in request body",
                       "message", "JSON Parse error">>, TRUE, {})

\* ErgenecoreContextWrapper.getBody of the other copy of the class:
\* request.text(), {} for an empty text, JSON.parse otherwise, and
\* HttpException(400) if that throws
getBodyThrowing(ctx, body) ==
  IF ctx.bodyRead THEN BodyRead(ctx, ctx.bodyCache, NoError)
  ELSE IF body = "none" THEN Cached(ctx, "{}")
  ELSE IF body = "json" THEN Cached(ctx, "parsed")
  ELSE BodyRead(ctx, "none", InvalidJson)

\* the two copies of the class the repository holds
GetBodyBuilds == {"returningEmpty", "throwing"}

\* context.getBody() of the build in use
getBody(build, ctx, body) ==
  IF build = "throwing" THEN getBodyThrowing(ctx, body)
  ELSE getBodyReturningEmpty(ctx, body)

\* a stage is handed the context
observe(ctx, stage) ==
  [ctx EXCEPT !.seen = Append(@, [stage |-> stage, values |-> ctx.values])]

\* no connection, no limit, no timer, no heartbeat option
IdleSockets ==
  /\ connections = EmptyMap
  /\ activeConnections = EmptyMap
  /\ connectionLimits = EmptyMap
  /\ heartbeatIntervals = EmptyMap
  /\ wsOptions = [heartbeatInterval |-> 0]
  /\ delivered = EmptyMap
  /\ socketIds = EmptyMap
  /\ timers = {}

\* no request is being served
IdleRequest ==
  /\ pc = "idle"
  /\ current = NoClosure
  /\ req = NoRequest
  /\ list = "none"
  /\ waiting = 0
  /\ ret = NoResult
  /\ decision = NoResult
  /\ trace = <<>>
  /\ response = NoResponse
  /\ logged = <<>>
  /\ calls = <<>>
  /\ raised = NoError
  /\ context = NewContext

InitLifecycle ==
  /\ routeQueue = <<>>
  /\ wsRouteQueue = <<>>
  /\ globalMiddlewares = <<>>
  /\ routesBuilt = FALSE
  /\ server = NoServer
  /\ errorHandler = FALSE
  /\ websockets = EmptyMap
  /\ startResult = NoStart
  /\ buildCount = 0
  /\ IdleRequest
  /\ IdleSockets

\* Array.prototype.push on a pending queue
pushReplacing(queue, item) == <<item>>

push(queue, item) == Append(queue, item)

\* registerRoute(params)
RegisterRoute ==
  /\ Len(routeQueue) < MaxRoutes
  /\ \E r \in RouteRegistrations :
       routeQueue' = push(routeQueue,
         [id |-> Len(routeQueue) + 1, method |-> r.method, path |-> r.path,
          middlewares |-> r.middlewares, validator |-> r.validator,
          staticServe |-> r.staticServe])
  /\ UNCHANGED <<wsRouteQueue, globalMiddlewares, routesBuilt, server,
                 errorHandler, websockets, startResult, buildCount>>
  /\ UNCHANGED requestVars
  /\ UNCHANGED socketVars

\* registerWebsocketRoute(params): queues the route and registers its
\* service with the websocket adapter under the service's namespace
RegisterWebsocketRoute ==
  /\ Len(wsRouteQueue) < MaxWsRoutes
  /\ \E w \in WsRegistrations :
       LET id == Len(wsRouteQueue) + 1
       IN /\ wsRouteQueue' = push(wsRouteQueue,
               [id |-> id, path |-> w.path, middlewares |-> <<>>,
                namespace |-> w.namespace])
          /\ websockets' = Put(websockets, w.namespace, id)
  /\ UNCHANGED <<routeQueue, globalMiddlewares, routesBuilt, server,
                 errorHandler, startResult, buildCount>>
  /\ UNCHANGED requestVars
  /\ UNCHANGED socketVars

\* use(middleware, config)
Use ==
  /\ Len(globalMiddlewares) < MaxGlobals
  /\ \E c \in GlobalConfigs :
       globalMiddlewares' = Append(globalMiddlewares,
         [middleware |-> GlobalNames[Len(globalMiddlewares) + 1], config |-> c])
  /\ UNCHANGED <<routeQueue, wsRouteQueue, routesBuilt, server, errorHandler,
                 websockets, startResult, buildCount>>
  /\ UNCHANGED requestVars
  /\ UNCHANGED socketVars

\* onError(errorHandler)
OnError ==
  /\ ~errorHandler
  /\ errorHandler' = TRUE
  /\ UNCHANGED <<routeQueue, wsRouteQueue, globalMiddlewares, routesBuilt,
                 server, websockets, startResult, buildCount>>
  /\ UNCHANGED requestVars
  /\ UNCHANGED socketVars

\* if (!this.routesBuilt) : start() compiles only while this holds
needsBuildAlways == TRUE

needsBuild == ~routesBuilt

\* start(): compiles and serves unless routesBuilt, returns this.server
Start ==
  /\ IF needsBuild
     THEN LET httpRoutes == buildBunRoutes
              wsRoutes   == buildWebSocketRoutes
              collision  == checkPathCollisions(httpRoutes, wsRoutes)
          IN /\ buildCount < MaxBuilds
             /\ buildCount' = buildCount + 1
             /\ IF collision.thrown
                THEN /\ startResult' = StartOutcome(routesBuilt, TRUE, collision.path, FALSE)
                     /\ UNCHANGED <<routesBuilt, server>>
                ELSE /\ server' = [exists |-> TRUE, running |-> TRUE,
                                   routes |-> mergeRoutes(httpRoutes, wsRoutes)]
                     /\ routesBuilt' = TRUE
                     /\ startResult' = StartOutcome(routesBuilt, FALSE, NoPath, TRUE)
     ELSE /\ startResult' = StartOutcome(routesBuilt, FALSE, NoPath, server.running)
          /\ UNCHANGED <<routesBuilt, server, buildCount>>
  /\ UNCHANGED <<routeQueue, wsRouteQueue, globalMiddlewares, errorHandler,
                 websockets>>
  /\ UNCHANGED requestVars
  /\ UNCHANGED socketVars

\* stop(): if (this.server) await this.server.stop(...)
Stop ==
  /\ server.exists
  /\ server.running
  /\ server' = [server EXCEPT !.running = FALSE]
  /\ UNCHANGED <<routeQueue, wsRouteQueue, globalMiddlewares, routesBuilt,
                 errorHandler, websockets, startResult, buildCount>>
  /\ UNCHANGED requestVars
  /\ UNCHANGED socketVars

Next ==
  \/ RegisterRoute
  \/ RegisterWebsocketRoute
  \/ Use
  \/ OnError
  \/ Start
  \/ Stop

Spec == InitLifecycle /\ [][Next]_vars

\* ------------------------------------------------------------------------
\* The middleware chain (executeMiddlewares)
\* ------------------------------------------------------------------------
\* What a middleware's handle(context, next) does: "next" awaits next() and
\* then returns nothing; the others return or throw without calling next()
MwBehaviours ==
  {"next", "return", "false", "response", "throwHttpString",
   "throwHttpObject", "throwError", "throwStopped"}

\* the Response a middleware builds when it answers the request itself
MwResponse(m) == Response(401, <<"denied by", m>>, {<<"X-Denied-By", m>>})

\* what handle() settles to when it does not call next()
handleAlone(m, b) ==
  CASE b = "return"   -> ResultTrue
    [] b = "false"    -> ResultFalse
    [] b = "response" -> ResultResponse(MwResponse(m))
    [] b = "throwHttpString" ->
         ResultThrow(HttpException(401, <<"Unauthorized", m>>, FALSE,
                                   {<<"WWW-Authenticate", "Bearer">>}))
    [] b = "throwHttpObject" ->
         ResultThrow(HttpException(400, <<"error", m>>, TRUE, {}))
    [] b = "throwError"   -> ResultThrow(Error(<<"boom", m>>))
    [] b = "throwStopped" -> ResultThrow(Error(ChainStopped))

\* await next() inside a middleware, given what
\* executeMiddlewares(context, middlewares, index + 1) settled to
next(result) ==
  CASE result.tag = "response" -> ResultThrow(MiddlewareResponseError(result.response))
    [] result.tag = "false"    -> ResultThrow(Error(ChainStopped))
    [] result.tag = "throw"    -> result
    [] OTHER                   -> ResultTrue

\* the catch block of executeMiddlewares with every thrown value rethrown
rethrowAll(error) == ResultThrow(error)

\* the catch block with a downstream response replaced by a plain stop
catchDroppingResponse(error) ==
  IF error.class = "HttpException" THEN ResultResponse(getResponse(error))
  ELSE IF error.class = "MiddlewareResponseError" THEN ResultFalse
  ELSE IF error.message = ChainStopped THEN ResultFalse
  ELSE ResultThrow(error)

\* the catch block of executeMiddlewares
catchInChain(error) ==
  IF error.class = "HttpException" THEN ResultResponse(getResponse(error))
  ELSE IF error.class = "MiddlewareResponseError" THEN ResultResponse(error.response)
  ELSE IF error.message = ChainStopped THEN ResultFalse
  ELSE ResultThrow(error)

\* a frame that returns true whatever its middleware decided
frameResultIgnoringAbort(outcome) == ResultTrue

\* what one executeMiddlewares frame returns, given what handle() settled to
frameResult(outcome) ==
  CASE outcome.tag = "response" -> outcome
    [] outcome.tag = "false"    -> ResultFalse
    [] outcome.tag = "throw"    -> catchInChain(outcome.error)
    [] OTHER                    -> ResultTrue

\* ------------------------------------------------------------------------
\* Dispatching a request (the router of Bun.serve over the compiled table)
\* ------------------------------------------------------------------------
\* Path segments that a URL parser treats as '..' and as '.'
DoubleDotSegments == {"..", "%2e%2e", ".%2e", "%2e."}

SingleDotSegments == {".", "%2e"}

RECURSIVE RemoveDotSegments(_, _)
\* the path state of the URL parser: a '..' segment drops the segment
\* before it, a '.' segment is dropped, and either one in last position
\* leaves a trailing slash
RemoveDotSegments(done, segs) ==
  IF segs = <<>> THEN done
  ELSE LET h == Head(segs)
           isLast == Len(segs) = 1
           popped == IF done = <<>> THEN <<>> ELSE SubSeq(done, 1, Len(done) - 1)
       IN IF h \in DoubleDotSegments
          THEN RemoveDotSegments(IF isLast THEN Append(popped, "") ELSE popped, Tail(segs))
          ELSE IF h \in SingleDotSegments
          THEN RemoveDotSegments(IF isLast THEN Append(done, "") ELSE done, Tail(segs))
          ELSE RemoveDotSegments(Append(done, h), Tail(segs))

\* new URL(req.url).pathname, as its segments
URLpathname(url) == RemoveDotSegments(<<>>, url)

\* a route pattern matches a path: ':id' stands for one segment, a final
\* '*' for one or more remaining segments
matchesRoute(pattern, segs) ==
  LET n == Len(pattern.segs)
      wild == n > 0 /\ pattern.segs[n] = "*"
      fixed == IF wild THEN n - 1 ELSE n
  IN /\ pattern.lead
     /\ IF wild THEN Len(segs) >= n ELSE Len(segs) = n
     /\ \A i \in 1..fixed : pattern.segs[i] \in {segs[i], ":id"}

\* precedence of the router: exact, then parameter, then wildcard, then '/*'
specificity(pattern) ==
  LET n == Len(pattern.segs)
  IN IF \A i \in 1..n : ~IsDynamicSegment(pattern.segs[i]) THEN 3
     ELSE IF pattern.segs[n] # "*" THEN 2
     ELSE IF n > 1 THEN 1 ELSE 0

\* the table entry serving a request: the most specific matching pattern
\* that has the method (or is a function)
routeFor(table, request) ==
  LET segs == URLpathname(request.url)
      hits == {p \in DOMAIN table :
                 /\ matchesRoute(p, segs)
                 /\ table[p].isFunction \/ request.method \in DOMAIN table[p].methods}
  IN IF hits = {} THEN NoPath
     ELSE CHOOSE p \in hits : \A q \in hits : specificity(q) <= specificity(p)

\* ------------------------------------------------------------------------
\* The route handlers (createRouteHandler, createFastPathHandler)
\* ------------------------------------------------------------------------
\* the route the current handler was compiled from
RouteOf(closure) ==
  IF closure.kind = "upgrade" THEN wsRouteQueue[closure.target]
  ELSE routeQueue[closure.target]

CurrentRoute == RouteOf(current)

\* the middleware lists a full handler executes, each by its own
\* executeMiddlewares call, in this order (empty lists are not executed)
ChainListsLocalFirst(closure, route) ==
  SelectSeq(<<"route", "global">>,
            LAMBDA l : IF l = "global" THEN closure.globals # <<>>
                       ELSE route.middlewares # <<>>)

ChainLists(closure, route) ==
  SelectSeq(<<"global", "route">>,
            LAMBDA l : IF l = "global" THEN closure.globals # <<>>
                       ELSE route.middlewares # <<>>)

\* the list being walked by executeMiddlewares
Middlewares ==
  IF list = "global" THEN current.globals
  ELSE IF list = "route" THEN CurrentRoute.middlewares
  ELSE <<>>

\* where the handler goes on once the middleware lists are through
AfterValidation(route) == IF route.staticServe.enabled THEN "static" ELSE "handler"

AfterMiddlewares(route) == IF route.validator.enabled THEN "validate" ELSE AfterValidation(route)

\* an upgrade handler goes on to the upgrade itself
AfterChain(closure, route) ==
  IF closure.kind = "upgrade" THEN "upgrade" ELSE AfterMiddlewares(route)

\* whether the catch block of the compiled handler consults
\* this.errorHandler: that of an upgrade handler does not
consultsErrorHandler(closure) == closure.kind # "upgrade" /\ errorHandler

\* what the runtime answers by itself when the table has no entry for a
\* request
BunNotFound == Response(404, <<>>, {})

\* the catch-all: routes['/*'] of buildBunRoutes
NotFoundResponse == Response(404, stringify(<<"error", "Not Found">>), JsonHeaders)

\* an abort answered as if no route had matched
AbortAsNotFound == Response(404, <<"Not Found">>, {})

ForbiddenResponse == Response(403, <<"Forbidden">>, {})

\* the response of the registered global error handler
ErrorHandlerResponse(error) == Response(500, <<"handled">> \o error.message, {})

\* the default error response, after logger.error
DefaultErrorResponse(error) ==
  Response(500, stringify(<<"error">> \o error.message), JsonHeaders)

\* the catch block of a route handler: the response and whether it logs;
\* custom tells whether the global error handler is consulted
catchInHandler(error, custom) ==
  IF error.class = "HttpException"
  THEN [response |-> getResponse(error), logs |-> FALSE, handled |-> FALSE]
  ELSE IF custom
  THEN [response |-> ErrorHandlerResponse(error), logs |-> FALSE, handled |-> TRUE]
  ELSE [response |-> DefaultErrorResponse(error), logs |-> TRUE, handled |-> FALSE]

\* the request ends with the response of the catch block
Caught(error, custom) ==
  LET c == catchInHandler(error, custom)
  IN /\ response' = c.response
     /\ logged' = IF c.logs THEN Append(logged, Log("error", error.message))
                  ELSE logged
     /\ calls' = IF c.handled THEN Append(calls, Call("errorHandler", error.message))
                 ELSE calls
     /\ raised' = error
     /\ pc' = "done"

\* what a route's handler(context) settles to: a plain value, a Response,
\* or a thrown value
HandlerOutcome(tag, value, resp, error) ==
  [tag |-> tag, value |-> value, response |-> resp, error |-> error]

HandlerOutcomes ==
  { HandlerOutcome("value", <<"ok">>, NoResponse, NoError),
    HandlerOutcome("response", <<>>, Response(201, <<"created">>, {}), NoError),
    HandlerOutcome("throw", <<>>, NoResponse,
                   HttpException(404, <<"no such item">>, FALSE, {})),
    HandlerOutcome("throw", <<>>, NoResponse,
                   HttpException(422, <<"error", "invalid">>, TRUE,
                                 {<<"X-Reason", "invalid">>})),
    HandlerOutcome("throw", <<>>, NoResponse, Error(<<"handler failed">>)) }

\* route.handler(context) and what the route handler makes of its outcome
\* (a handler that reads the body awaits context.getBody() first and lets
\* what that throws pass; the body is read of a request that carries one)
CallHandler(custom) ==
  \E o \in HandlerOutcomes, reads \in {FALSE, req.body # "none"},
     build \in GetBodyBuilds :
    LET read == IF reads THEN getBody(build, context, req.body)
                ELSE BodyRead(context, "none", NoError)
    IN /\ trace' = Append(trace, Event("handler", ""))
       /\ context' = observe(read.ctx, "handler")
       /\ IF read.error # NoError THEN Caught(read.error, custom)
          ELSE IF o.tag = "throw" THEN Caught(o.error, custom)
          ELSE /\ response' = IF o.tag = "response" THEN o.response
                              ELSE Response(200, stringify(o.value), JsonHeaders)
               /\ logged' = logged
               /\ pc' = "done"
               /\ UNCHANGED <<calls, raised>>

\* Bun routes the request to its table entry and calls it; a full handler
\* starts with its first middleware list
Dispatch ==
  /\ pc = "idle"
  /\ req # NoRequest
  /\ server.running
  /\ LET p == routeFor(server.routes, req)
     IN IF p = NoPath \/ server.routes[p].isFunction
        THEN /\ response' = IF p = NoPath THEN BunNotFound ELSE NotFoundResponse
             /\ pc' = "done"
             /\ UNCHANGED <<current, list, context>>
        ELSE LET h == server.routes[p].methods[req.method]
                 route == RouteOf(h)
                 lists == ChainLists(h, route)
             IN /\ current' = h
                /\ response' = response
                /\ context' = IF h.kind = "upgrade" THEN NewContext
                               ELSE injectParams(NewContext, route.path,
                                                 URLpathname(req.url))
                /\ IF h.kind \in {"full", "upgrade"}
                   THEN IF lists = <<>>
                        THEN pc' = AfterChain(h, route) /\ list' = "none"
                        ELSE pc' = "chain" /\ list' = lists[1]
                   ELSE pc' = h.kind /\ list' = "none"
  /\ UNCHANGED <<req, waiting, ret, decision, trace, logged, calls, raised>>
  /\ UNCHANGED lifecycleVars
  /\ UNCHANGED socketVars

\* executeMiddlewares(context, middlewares, index) is entered: past the end
\* it returns true; otherwise the middleware at index runs, and either
\* awaits next() or settles by itself
MwEnter ==
  /\ pc = "chain"
  /\ ret = NoResult
  /\ LET index == waiting + 1
     IN IF index > Len(Middlewares)
        THEN /\ ret' = ResultTrue
             /\ UNCHANGED <<waiting, decision, trace, context>>
        ELSE \E b \in MwBehaviours :
               LET m == Middlewares[index]
                   outcome == handleAlone(m, b)
                   how == IF outcome.tag = "throw" THEN "raise"
                          ELSE IF outcome.tag = "true" THEN "return" ELSE "abort"
               IN /\ context' = setValue(observe(context, m), m, "set")
                  /\ IF b = "next"
                     THEN /\ trace' = Append(trace, Event("pre", m))
                          /\ waiting' = waiting + 1
                          /\ UNCHANGED <<ret, decision>>
                     ELSE /\ trace' = trace \o <<Event("pre", m), Event(how, m)>>
                          /\ ret' = frameResult(outcome)
                          /\ decision' = IF outcome.tag = "true" THEN decision
                                          ELSE outcome
                          /\ UNCHANGED waiting
  /\ UNCHANGED <<pc, current, req, list, response, logged, calls, raised>>
  /\ UNCHANGED lifecycleVars
  /\ UNCHANGED socketVars

\* the innermost awaiting middleware gets the outcome of its next(): it
\* resumes and returns, or the rejection passes through it into the catch
\* block of its frame
MwResume ==
  /\ pc = "chain"
  /\ ret # NoResult
  /\ waiting > 0
  /\ LET m == Middlewares[waiting]
         got == next(ret)
     IN IF got.tag = "true"
        THEN /\ trace' = trace \o <<Event("resolved", m), Event("return", m)>>
             /\ ret' = frameResult(ResultTrue)
        ELSE /\ trace' = Append(trace, Event("unwound", m))
             /\ ret' = frameResult(got)
  /\ waiting' = waiting - 1
  /\ UNCHANGED <<pc, current, req, list, decision, response, logged, calls,
                  raised, context>>
  /\ UNCHANGED lifecycleVars
  /\ UNCHANGED socketVars

\* the route handler gets the result of executeMiddlewares: a response is
\* returned, false becomes 403, true goes on with the next list or stage,
\* and a rejection lands in the catch block of the handler
ChainReturn ==
  /\ pc = "chain"
  /\ ret # NoResult
  /\ waiting = 0
  /\ LET lists == ChainLists(current, CurrentRoute)
         at == CHOOSE i \in 1..Len(lists) : lists[i] = list
     IN CASE ret.tag = "response" ->
               /\ response' = ret.response
               /\ pc' = "done"
               /\ UNCHANGED <<list, ret, logged, calls, raised>>
          [] ret.tag = "false" ->
               /\ response' = ForbiddenResponse
               /\ pc' = "done"
               /\ UNCHANGED <<list, ret, logged, calls, raised>>
          [] ret.tag = "throw" ->
               /\ Caught(ret.error, consultsErrorHandler(current))
               /\ UNCHANGED <<list, ret>>
          [] OTHER ->
               /\ ret' = NoResult
               /\ IF at < Len(lists)
                  THEN list' = lists[at + 1] /\ pc' = "chain"
                  ELSE list' = "none" /\ pc' = AfterChain(current, CurrentRoute)
               /\ UNCHANGED <<response, logged, calls, raised>>
  /\ UNCHANGED <<current, req, waiting, decision, trace, context>>
  /\ UNCHANGED lifecycleVars
  /\ UNCHANGED socketVars

\* the full handler reaches route.handler(context)
RunHandler ==
  /\ pc = "handler"
  /\ CallHandler(errorHandler)
  /\ UNCHANGED <<current, req, list, waiting, ret, decision>>
  /\ UNCHANGED lifecycleVars
  /\ UNCHANGED socketVars

\* the fast-path handler: route.handler(context) under the catch block of
\* the variant chosen when the handler was created
FastPath ==
  /\ pc = "fast"
  /\ CallHandler(current.variant = "custom")
  /\ UNCHANGED <<current, req, list, waiting, ret, decision>>
  /\ UNCHANGED lifecycleVars
  /\ UNCHANGED socketVars

\* the HTTP response of an upgrade handler whose server.upgrade() failed
UpgradeFailedResponse == Response(500, <<"WebSocket upgrade failed">>, {})

\* the upgrade handler attempts the upgrade: server.upgrade(req, {data})
\* with the route's path; upgraded, the handler returns undefined (no HTTP
\* response), otherwise 500
Upgrade ==
  /\ pc = "upgrade"
  /\ \E upgraded \in BOOLEAN :
       /\ calls' = Append(calls, Call("upgrade", CurrentRoute.path.segs))
       /\ trace' = Append(trace, Event(IF upgraded THEN "upgraded" ELSE "upgradeFailed", ""))
       /\ response' = IF upgraded THEN NoResponse ELSE UpgradeFailedResponse
  /\ pc' = "done"
  /\ UNCHANGED <<current, req, list, waiting, ret, decision, logged, raised,
                 context>>
  /\ UNCHANGED lifecycleVars
  /\ UNCHANGED socketVars

\* ------------------------------------------------------------------------
\* Request validation (validateRequest)
\* ------------------------------------------------------------------------
\* handle() returned {schema, hook} rather than a schema
isValidationSchemaWithHook(kind) == kind \in {"hookResponse", "hookNothing"}

\* the response a validation hook builds from the failed result
HookResponse(key) == Response(422, <<"rejected by hook", key>>, {})

\* the default response to a failed validation; details is
\* result.error.flatten() of the target that failed
ValidationFailedResponse(key) ==
  Response(400, stringify(<<"error", "Validation failed", "details", key>>),
           JsonHeaders)

\* the default response whatever the hook returns
onValidationFailureIgnoringHook(key, kind) == ValidationFailedResponse(key)

\* a failed safeParse that lets the request go on
onValidationFailurePassing(key, kind) == NoResponse

\* what validateRequest makes of a failed safeParse
onValidationFailure(key, kind) ==
  IF isValidationSchemaWithHook(kind) /\ kind = "hookResponse"
  THEN HookResponse(key)
  ELSE ValidationFailedResponse(key)

\* the loop of validateRequest over the targets in from..to of methods, for
\* a request whose data is invalid for the targets in invalid: the
\* response (NoResponse is null: all validations passed), the targets
\* whose schema was evaluated, the hooks called, the error thrown out of
\* the loop, and the targets whose data extractValidationData fetched;
\* read is what context.getBody() does for the request
RECURSIVE validateLoop(_, _, _, _, _)
validateLoop(methods, from, validator, invalid, read) ==
  IF from > Len(methods)
  THEN [response |-> NoResponse, events |-> <<>>, calls |-> <<>>,
        error |-> NoError, extracted |-> {}]
  ELSE LET key == methods[from]
           kind == validator.targets[key]
           rest == validateLoop(methods, from + 1, validator, invalid, read)
       IN IF kind \in {"absent", "noSchema"} THEN rest
          ELSE IF key = "body" /\ read.error # NoError
          THEN [response |-> NoResponse, events |-> <<>>, calls |-> <<>>,
                error |-> read.error, extracted |-> {key}]
          ELSE IF key \notin invalid
          THEN [rest EXCEPT !.events = <<Event("safeParse", key)>> \o @,
                            !.extracted = {key} \cup @]
          ELSE [response |-> onValidationFailure(key, kind),
                events |-> <<Event("safeParse", key), Event("invalid", key)>>,
                calls |-> IF isValidationSchemaWithHook(kind)
                          THEN <<Call("hook", <<key>>)>> ELSE <<>>,
                error |-> NoError, extracted |-> {key}]

\* the targets walked last to first
ReversedMethods == [i \in 1..Len(VALIDATOR_METHODS) |->
                      VALIDATOR_METHODS[Len(VALIDATOR_METHODS) + 1 - i]]

validateReversed(validator, invalid, read) ==
  validateLoop(ReversedMethods, 1, validator, invalid, read)

validateRequest(validator, invalid, read) ==
  validateLoop(VALIDATOR_METHODS, 1, validator, invalid, read)

\* the full handler validates the request: a validation response ends the
\* request, null lets the handler go on, and what getBody() throws lands in
\* the catch block of the handler
Validate ==
  /\ pc = "validate"
  /\ \E invalid \in SUBSET ValidationTargets, build \in GetBodyBuilds :
       LET read == getBody(build, context, req.body)
           v == validateRequest(CurrentRoute.validator, invalid, read)
       IN /\ trace' = trace \o <<Event("validate", "")>> \o v.events
          /\ context' = IF "body" \in v.extracted THEN read.ctx ELSE context
          /\ IF v.error # NoError
             THEN Caught(v.error, consultsErrorHandler(current))
             ELSE /\ calls' = calls \o v.calls
                  /\ IF v.response # NoResponse
                     THEN response' = v.response /\ pc' = "done"
                     ELSE response' = response /\ pc' = AfterValidation(CurrentRoute)
                  /\ UNCHANGED <<logged, raised>>
  /\ UNCHANGED <<current, req, list, waiting, ret, decision>>
  /\ UNCHANGED lifecycleVars
  /\ UNCHANGED socketVars

\* ------------------------------------------------------------------------
\* Static file serving (serveStaticFile)
\* ------------------------------------------------------------------------
\* The files on disk, by the segments of their absolute path, with their
\* bytes: one under the root '/w/a', one in the sibling directory '/w/ab',
\* one in '/w/b'
Files ==
  (<<"w", "a", "s">> :> "bytes of /w/a/s") @@
  (<<"w", "ab", "s">> :> "bytes of /w/ab/s") @@
  (<<"w", "b", "s">> :> "bytes of /w/b/s")

\* the characters of a path segment
CharsOf(seg) == IF seg = "ab" THEN <<"a", "b">> ELSE <<seg>>

RECURSIVE PathString(_)
\* an absolute path as a string: '/' and the segment, for every segment
PathString(segs) ==
  IF segs = <<>> THEN <<>>
  ELSE <<"/">> \o CharsOf(Head(segs)) \o PathString(Tail(segs))

\* String.prototype.startsWith
startsWith(str, prefix) == IsPrefix(prefix, str)

\* decodeURIComponent on one segment of the path: the segments it decodes
\* to ('%2e' is '.', '%2f' is '/', '%25' is '%')
decodeSegment(seg) ==
  CASE seg = "%2e%2e%2fab"          -> <<"..", "ab">>
    [] seg = "%2e%2e%2fb"           -> <<"..", "b">>
    [] seg = "%2e%2e%2f%2e%2e%2fab" -> <<"..", "..", "ab">>
    [] seg = "%2fw%2fb"             -> <<"", "w", "b">>
    [] seg = "%252e%252e"           -> <<"%2e%2e">>
    [] OTHER                        -> <<seg>>

\* a segment decodeURIComponent throws URIError on
Malformed(seg) == seg = "%"

RECURSIVE decodeURIComponent(_)
decodeURIComponent(segs) ==
  IF segs = <<>> THEN <<>>
  ELSE decodeSegment(Head(segs)) \o decodeURIComponent(Tail(segs))

\* rewriteRequestPath: (path) => path.replace('/p', ''), the first '/p'
\* of the path removed (no other segment starts with 'p')
stripMount(segs) ==
  IF \E i \in 1..Len(segs) : segs[i] = "p"
  THEN LET i == CHOOSE i \in 1..Len(segs) :
                  segs[i] = "p" /\ \A j \in 1..(i - 1) : segs[j] # "p"
       IN SubSeq(segs, 1, i - 1) \o SubSeq(segs, i + 1, Len(segs))
  ELSE segs

rewriteRequestPath(staticServe, segs) ==
  IF staticServe.rewrite = "strip" THEN stripMount(segs) ELSE segs

RECURSIVE normalize(_, _)
\* path.normalize on an absolute path: empty and '.' segments dropped,
\* '..' drops the segment before it and stays at '/'
normalize(done, segs) ==
  IF segs = <<>> THEN done
  ELSE LET h == Head(segs)
       IN IF h \in {"", "."} THEN normalize(done, Tail(segs))
          ELSE IF h = ".."
          THEN normalize(IF done = <<>> THEN <<>> ELSE SubSeq(done, 1, Len(done) - 1),
                         Tail(segs))
          ELSE normalize(Append(done, h), Tail(segs))

\* path.join(root, rewrittenPath)
pathJoin(root, segs) == normalize(<<>>, root \o segs)

\* path.resolve(absolutePath)
pathResolve(segs) == normalize(<<>>, segs)

\* the request path, rewritten, and the file it resolves to
RewrittenPath(staticServe, request) ==
  rewriteRequestPath(staticServe, decodeURIComponent(URLpathname(request.url)))

ResolvedFilePath(staticServe, request) ==
  pathResolve(pathJoin(staticServe.root, RewrittenPath(staticServe, request)))

\* the path check of serveStaticFile
withinRoot(staticServe, resolvedFilePath) ==
  startsWith(PathString(resolvedFilePath), PathString(pathResolve(staticServe.root)))

\* the response carrying a file
FileResponse(bytes) ==
  Response(200, <<bytes>>,
           {<<"ETag", bytes>>, <<"Last-Modified", bytes>>,
            <<"Cache-Control", "public, max-age=0">>})

\* a hook that never takes the request over
hookNeverOverrides(hook) == FALSE

\* staticServe.onFound / onNotFound is set and its override flag is true
hookOverrides(hook) == hook.present /\ hook.override

\* a missing file answered with an empty 200
StaticNotFoundAsEmpty == Response(200, <<>>, {})

\* new Response('Not Found', {status: 404})
StaticNotFoundResponse == Response(404, <<"Not Found">>, {})

\* what a hook's handler throws
HookError(class) ==
  IF class = "HttpException"
  THEN HttpException(401, <<"Unauthorized">>, FALSE, {<<"WWW-Authenticate", "Bearer">>})
  ELSE Error(<<"hook failed">>)

\* serveStaticFile(req, context, staticServe): a response, or null (the
\* route handler goes on) when a hook overrides
ServeStatic ==
  /\ pc = "static"
  /\ LET staticServe == CurrentRoute.staticServe
         segs == URLpathname(req.url)
         rewritten == RewrittenPath(staticServe, req)
         file == ResolvedFilePath(staticServe, req)
         respond(r) == response' = r /\ pc' = "done"
         \* the catch block of serveStaticFile
         catch(error) ==
           /\ respond(DefaultErrorResponse(error))
           /\ logged' = Append(logged, Log("error", error.message))
           /\ raised' = error
     IN IF \E i \in 1..Len(segs) : Malformed(segs[i])
        THEN /\ catch(Error(<<"URI malformed">>))
             /\ trace' = Append(trace, Event("static", ""))
             /\ calls' = calls
        ELSE IF ~withinRoot(staticServe, file)
        THEN /\ respond(ForbiddenResponse)
             /\ logged' = Append(logged, Log("warn", <<"Path traversal attempt detected">>))
             /\ trace' = Append(trace, Event("static", ""))
             /\ UNCHANGED <<calls, raised>>
        ELSE LET found == file \in DOMAIN Files
                 hook == IF found THEN staticServe.onFound ELSE staticServe.onNotFound
                 name == IF found THEN "onFound" ELSE "onNotFound"
             IN /\ trace' = trace \o <<Event("static", "")>> \o
                              (IF hook.present THEN <<Event(name, "")>> ELSE <<>>)
                /\ calls' = IF hook.present THEN Append(calls, Call(name, rewritten))
                            ELSE calls
                /\ IF hook.present /\ hook.throws # "none"
                   THEN catch(HookError(hook.throws))
                   ELSE /\ UNCHANGED <<logged, raised>>
                        /\ IF hookOverrides(hook)
                           THEN response' = response /\ pc' = "handler"
                           ELSE IF found THEN respond(FileResponse(Files[file]))
                           ELSE respond(StaticNotFoundResponse)
  /\ UNCHANGED <<current, req, list, waiting, ret, decision, context>>
  /\ UNCHANGED lifecycleVars
  /\ UNCHANGED socketVars

\* ------------------------------------------------------------------------
\* One request through a compiled table
\* ------------------------------------------------------------------------
MaxGlobalMw == 2
MaxLocalMw == 2

\* use() called n times, each with one of the filters
GlobalSetups ==
  UNION { { [i \in 1..n |-> [middleware |-> GlobalNames[i], config |-> c[i]]] :
              c \in [1..n -> GlobalConfigs] } : n \in 0..MaxGlobalMw }

\* the state start() leaves behind for the routes and middlewares queued
Started ==
  /\ routesBuilt = TRUE
  /\ server = [exists |-> TRUE, running |-> TRUE,
               routes |-> mergeRoutes(buildBunRoutes, buildWebSocketRoutes)]
  /\ startResult = StartOutcome(FALSE, FALSE, NoPath, TRUE)
  /\ buildCount = 1

\* An adapter with one GET route, '/data' or '/data/:id', carrying up to
\* MaxLocalMw middlewares, and up to MaxGlobalMw global middlewares,
\* started; one request is about to arrive: a GET for '/data' or '/data/7',
\* which the route may serve, or one without a route (GET '/other', POST
\* '/data')
InitRequest ==
  /\ globalMiddlewares \in GlobalSetups
  /\ errorHandler \in BOOLEAN
  /\ \E k \in 0..MaxLocalMw, p \in {<<"data">>, <<"data", ":id">>} :
       routeQueue = << [id |-> 1, method |-> "get", path |-> Path(TRUE, p),
                        middlewares |-> SubSeq(LocalNames, 1, k),
                        validator |-> NoValidator, staticServe |-> NoStatic] >>
  /\ wsRouteQueue = <<>>
  /\ websockets = EmptyMap
  /\ Started
  /\ pc = "idle"
  /\ current = NoClosure
  /\ req \in {Request("GET", <<"data">>), Request("GET", <<"data", "7">>),
             Request("GET", <<"other">>), Request("POST", <<"data">>)}
  /\ list = "none"
  /\ waiting = 0
  /\ ret = NoResult
  /\ decision = NoResult
  /\ trace = <<>>
  /\ response = NoResponse
  /\ logged = <<>>
  /\ calls = <<>>
  /\ raised = NoError
  /\ context = NewContext
  /\ IdleSockets

\* onError(handler) is called on the started adapter before the request
\* arrives
OnErrorBeforeRequest ==
  /\ pc = "idle"
  /\ OnError

NextRequest ==
  \/ OnErrorBeforeRequest
  \/ Dispatch
  \/ MwEnter
  \/ MwResume
  \/ ChainReturn
  \/ RunHandler
  \/ FastPath

SpecRequest == InitRequest /\ [][NextRequest]_vars

\* ------------------------------------------------------------------------
\* One request to an upgrade route
\* ------------------------------------------------------------------------
\* An adapter with one upgrade route registered as '/data' or 'data',
\* carrying up to MaxLocalMw middlewares, and up to MaxGlobalMw global
\* middlewares, started; one GET request for '/data' or for a path without
\* a route is about to arrive
InitUpgrade ==
  /\ globalMiddlewares \in GlobalSetups
  /\ errorHandler \in BOOLEAN
  /\ routeQueue = <<>>
  /\ \E k \in 0..MaxLocalMw, lead \in BOOLEAN :
       wsRouteQueue = << [id |-> 1, path |-> Path(lead, <<"data">>),
                          middlewares |-> SubSeq(LocalNames, 1, k),
                          namespace |-> Path(FALSE, <<"data">>)] >>
  /\ websockets = Put(EmptyMap, Path(FALSE, <<"data">>), 1)
  /\ Started
  /\ pc = "idle"
  /\ current = NoClosure
  /\ req \in {Request("GET", <<"data">>), Request("GET", <<"other">>)}
  /\ list = "none"
  /\ waiting = 0
  /\ ret = NoResult
  /\ decision = NoResult
  /\ trace = <<>>
  /\ response = NoResponse
  /\ logged = <<>>
  /\ calls = <<>>
  /\ raised = NoError
  /\ context = NewContext
  /\ IdleSockets

NextUpgrade ==
  \/ Dispatch
  \/ MwEnter
  \/ MwResume
  \/ ChainReturn
  \/ Upgrade

SpecUpgrade == InitUpgrade /\ [][NextUpgrade]_vars

\* ------------------------------------------------------------------------
\* One request to a route with a validator
\* ------------------------------------------------------------------------
\* what the route with a validator may serve besides: nothing, or the
\* directory '/w/a'
ValidateStatics == {NoStatic, StaticServeParams(<<"w", "a">>, "none", NoHook, NoHook)}

\* An adapter with one POST route '/data' carrying a validator, with or
\* without static serving, started; one POST request for '/data' is about
\* to arrive, without a body, with a JSON body or with a body that is not
\* JSON
InitValidate ==
  /\ globalMiddlewares = <<>>
  /\ errorHandler \in BOOLEAN
  /\ \E targets \in [ValidationTargets -> TargetKinds], static \in ValidateStatics :
       routeQueue = << [id |-> 1, method |-> "post", path |-> Path(TRUE, <<"data">>),
                        middlewares |-> <<>>, validator |-> Validator(targets),
                        staticServe |-> static] >>
  /\ wsRouteQueue = <<>>
  /\ websockets = EmptyMap
  /\ Started
  /\ pc = "idle"
  /\ current = NoClosure
  /\ \E body \in Bodies : req = RequestWithBody("POST", <<"data">>, body)
  /\ list = "none"
  /\ waiting = 0
  /\ ret = NoResult
  /\ decision = NoResult
  /\ trace = <<>>
  /\ response = NoResponse
  /\ logged = <<>>
  /\ calls = <<>>
  /\ raised = NoError
  /\ context = NewContext
  /\ IdleSockets

NextValidate ==
  \/ Dispatch
  \/ Validate
  \/ ServeStatic
  \/ RunHandler

SpecValidate == InitValidate /\ [][NextValidate]_vars

\* ------------------------------------------------------------------------
\* One request to a static-serve route
\* ------------------------------------------------------------------------
MaxSegs == 2

\* what a client may put in a segment of the URL path
UrlSegments ==
  {"s", "ab", "", "..", "%2e%2e", "%252e%252e", "%2e%2e%2fab", "%2e%2e%2fb",
   "%2e%2e%2f%2e%2e%2fab", "%2fw%2fb", "%"}

\* the URL paths '/p/...' with up to MaxSegs segments after the mount
StaticUrls ==
  UNION { { <<"p">> \o u : u \in [1..n -> UrlSegments] } : n \in 0..MaxSegs }

Hooks == {NoHook, Hook(FALSE), Hook(TRUE), ThrowingHook("HttpException"),
          ThrowingHook("Error")}

\* An adapter with one GET route '/p/*' serving the directory '/w/a',
\* started; one GET request under '/p' is about to arrive
InitStatic ==
  /\ globalMiddlewares = <<>>
  /\ errorHandler \in BOOLEAN
  /\ \E rewrite \in {"none", "strip"}, onFound \in Hooks, onNotFound \in Hooks :
       routeQueue = << [id |-> 1, method |-> "get", path |-> Path(TRUE, <<"p", "*">>),
                        middlewares |-> <<>>, validator |-> NoValidator,
                        staticServe |-> StaticServeParams(<<"w", "a">>, rewrite,
                                                          onFound, onNotFound)] >>
  /\ wsRouteQueue = <<>>
  /\ websockets = EmptyMap
  /\ Started
  /\ pc = "idle"
  /\ current = NoClosure
  /\ \E u \in StaticUrls : req = Request("GET", u)
  /\ list = "none"
  /\ waiting = 0
  /\ ret = NoResult
  /\ decision = NoResult
  /\ trace = <<>>
  /\ response = NoResponse
  /\ logged = <<>>
  /\ calls = <<>>
  /\ raised = NoError
  /\ context = NewContext
  /\ IdleSockets

NextStatic ==
  \/ Dispatch
  \/ ServeStatic
  \/ RunHandler

SpecStatic == InitStatic /\ [][NextStatic]_vars

\* ------------------------------------------------------------------------
\* Compilation of one route under filtered global middlewares
\* ------------------------------------------------------------------------
\* the filters of SpecCompile: none, include only, exclude only, and an
\* include pattern with an exclude pattern for a path the include matches
CompileConfigs ==
  { NoConfig,
    [hasConfig |-> TRUE, include |-> {Path(TRUE, <<"data", "*">>)}, exclude |-> {}],
    [hasConfig |-> TRUE, include |-> {}, exclude |-> {Path(TRUE, <<"data", "*">>)}],
    [hasConfig |-> TRUE, include |-> {Path(TRUE, <<"data", "*">>)},
     exclude |-> {Path(TRUE, <<"data", "x">>)}] }

CompileSetups ==
  UNION { { [i \in 1..n |-> [middleware |-> GlobalNames[i], config |-> c[i]]] :
              c \in [1..n -> CompileConfigs] } : n \in 0..MaxGlobalMw }

CompilePaths == {Path(TRUE, <<"data">>), Path(TRUE, <<"data", "x">>),
                 Path(TRUE, <<"data", "y">>)}

\* the upgrade routes of SpecCompile: none, or one for the namespace
\* 'data/ws' registered as '/data/ws' or as 'data/ws'
CompileWsQueues ==
  {<<>>} \cup
  { << [id |-> 1, path |-> Path(lead, <<"data", "ws">>), middlewares |-> <<>>,
        namespace |-> Path(FALSE, <<"data", "ws">>)] >> : lead \in BOOLEAN }

\* An adapter with one queued GET route (with or without a route-local
\* middleware, a validator, a static-serve configuration), with or without
\* an upgrade route, and up to MaxGlobalMw filtered global middlewares,
\* not yet started
InitCompile ==
  /\ globalMiddlewares \in CompileSetups
  /\ errorHandler \in BOOLEAN
  /\ \E p \in CompilePaths, k \in 0..1, v \in {NoValidator, BodyValidator},
        s \in {NoStatic, StaticServeParams(<<"w", "a">>, "none", NoHook, NoHook)} :
       routeQueue = << [id |-> 1, method |-> "get", path |-> p,
                        middlewares |-> SubSeq(LocalNames, 1, k),
                        validator |-> v, staticServe |-> s] >>
  /\ wsRouteQueue \in CompileWsQueues
  /\ websockets = [n \in {wsRouteQueue[k].namespace : k \in 1..Len(wsRouteQueue)} |-> 1]
  /\ routesBuilt = FALSE
  /\ server = NoServer
  /\ startResult = NoStart
  /\ buildCount = 0
  /\ IdleRequest
  /\ IdleSockets

NextCompile ==
  \/ Start
  \/ Stop

SpecCompile == InitCompile /\ [][NextCompile]_vars

\* ------------------------------------------------------------------------
\* The websocket adapter (class ErgenecoreWebsocketAdapter)
\* ------------------------------------------------------------------------
MaxConns == 2

\* the limits setConnectionLimit is called with
Limits == 0..2

\* the namespaces of the registered services
ChatNamespace == Path(FALSE, <<"chat">>)

NewsNamespace == Path(FALSE, <<"news">>)

Namespaces == {ChatNamespace, NewsNamespace}

\* ws.data.path of a connection: the path of its upgrade route, written
\* with or without a leading slash
ConnectionPaths == {ChatNamespace, Path(TRUE, <<"chat">>), NewsNamespace}

\* ws.data.path.replace(/^\//, '')
namespaceOf(path) == Path(FALSE, path.segs)

\* a connection Bun has opened: ws.data.path, ws.readyState ("open",
\* "closing" once ws.close() was called, "closed" once Bun has called the
\* close handler), the code it was closed with by the server, and whether
\* the open handler let it past the limit
Connection(path, state, code, accepted) ==
  [path |-> path, state |-> state, code |-> code, accepted |-> accepted]

\* ws.close(code, reason) by the server
wsClose(conn, code) ==
  IF conn.state = "open" THEN [conn EXCEPT !.state = "closing", !.code = code]
  ELSE conn

\* this.activeConnections.get(namespace)?.size || 0
getConnectionCount(namespace) ==
  IF namespace \in DOMAIN activeConnections
  THEN Cardinality(activeConnections[namespace]) ELSE 0

\* a limit check that lets one connection too many in
limitReachedAbove(namespace) ==
  /\ namespace \in DOMAIN connectionLimits
  /\ getConnectionCount(namespace) > connectionLimits[namespace]

\* limit && currentCount >= limit
limitReached(namespace) ==
  /\ namespace \in DOMAIN connectionLimits
  /\ getConnectionCount(namespace) >= connectionLimits[namespace]

\* if (heartbeatInterval), with heartbeatInterval = options?.heartbeatInterval
heartbeatEnabled(options) == options.heartbeatInterval # 0

\* Map.prototype.delete
Remove(f, k) == [x \in (DOMAIN f) \ {k} |-> f[x]]

\* The heartbeat state: the Map this.heartbeatIntervals (connection id ->
\* timer) and the timers running in the runtime; a timer is named after
\* the connection startHeartbeat created it for
Heartbeats(intervals, running) == [intervals |-> intervals, running |-> running]

\* startHeartbeat(ws, intervalMs): setInterval, then
\* this.heartbeatIntervals.set(ws.data.id, interval)
startHeartbeat(hb, ws, id) ==
  Heartbeats(Put(hb.intervals, id, ws), hb.running \cup {ws})

\* stopHeartbeat(connectionId): clearInterval on the timer the Map holds
\* for the id, and delete
stopHeartbeat(hb, id) ==
  IF id \in DOMAIN hb.intervals
  THEN Heartbeats(Remove(hb.intervals, id), hb.running \ {hb.intervals[id]})
  ELSE hb

\* shutdown(): clearInterval for every timer of the Map,
\* heartbeatIntervals.clear()
shutdownTimers(hb) ==
  Heartbeats(EmptyMap, hb.running \ {hb.intervals[id] : id \in DOMAIN hb.intervals})

\* the handler wrapper createHandler(type) called for a connection whose
\* user handler returns or throws: the connection afterwards. The service
\* is looked up by ws.data.path as it is
createHandler(type, conn, throws) ==
  IF conn.path \notin DOMAIN websockets
  THEN wsClose(conn, 1011)
  ELSE IF throws /\ type \in {"onOpenInternal", "onMessage"}
  THEN wsClose(conn, 1011)
  ELSE conn

\* what createHandler(type) calls for a connection: the handler of the
\* service this.websockets holds under ws.data.path, if it holds one
handlerCalls(type, conn) ==
  IF conn.path \in DOMAIN websockets
  THEN {[type |-> type, service |-> websockets[conn.path]]}
  ELSE {}

\* setConnectionLimit(namespace, limit): throws for a limit below 1
SetConnectionLimit ==
  /\ \E namespace \in Namespaces, limit \in Limits :
       connectionLimits' = IF limit < 1 THEN connectionLimits
                           ELSE Put(connectionLimits, namespace, limit)
  /\ UNCHANGED <<connections, activeConnections, heartbeatIntervals, wsOptions,
                 delivered, socketIds, timers>>
  /\ UNCHANGED lifecycleVars
  /\ UNCHANGED requestVars

\* the heartbeat state of the adapter and the runtime
heartbeats == Heartbeats(heartbeatIntervals, timers)

\* the connections whose close has not been handled yet
liveSockets == {ws \in DOMAIN connections : connections[ws].state # "closed"}

\* ws.data.id of a new connection, `conn-${Date.now()}-${random}`: an id no
\* connection has, or the id of a connection that is still there
newIds(ws) == {ws} \cup {socketIds[other] : other \in liveSockets}

\* websocket.open(ws) for a new connection: the limit check, the tracking,
\* the heartbeat, the user's onOpenInternal
WsOpen ==
  /\ Cardinality(DOMAIN connections) < MaxConns
  /\ \E path \in ConnectionPaths, throws \in BOOLEAN :
       LET ws == Cardinality(DOMAIN connections) + 1
           namespace == namespaceOf(path)
           tracked == IF namespace \in DOMAIN activeConnections
                      THEN activeConnections[namespace] ELSE {}
       IN \E id \in newIds(ws) :
            /\ socketIds' = Put(socketIds, ws, id)
            /\ IF limitReached(namespace)
               THEN /\ connections' = Put(connections, ws,
                                          wsClose(Connection(path, "open", 0, FALSE), 1008))
                    /\ delivered' = Put(delivered, ws, {})
                    /\ UNCHANGED <<activeConnections, heartbeatIntervals, timers>>
               ELSE LET hb == IF heartbeatEnabled(wsOptions)
                              THEN startHeartbeat(heartbeats, ws, id)
                              ELSE heartbeats
                    IN /\ activeConnections' =
                            Put(activeConnections, namespace, tracked \cup {id})
                       /\ heartbeatIntervals' = hb.intervals
                       /\ timers' = hb.running
                       /\ connections' = Put(connections, ws,
                            createHandler("onOpenInternal",
                                          Connection(path, "open", 0, TRUE), throws))
                       /\ delivered' = Put(delivered, ws,
                            handlerCalls("onOpenInternal",
                                         Connection(path, "open", 0, TRUE)))
  /\ UNCHANGED <<connectionLimits, wsOptions>>
  /\ UNCHANGED lifecycleVars
  /\ UNCHANGED requestVars

\* websocket.message(ws, message) for a message of the open connection ws:
\* createHandler('onMessage'), whose user handler returns or throws
WsMessageOf(ws, throws) ==
  LET conn == connections[ws]
  IN /\ conn.state = "open"
     /\ connections' = Put(connections, ws, createHandler("onMessage", conn, throws))
     /\ delivered' = Put(delivered, ws,
          delivered[ws] \cup handlerCalls("onMessage", conn))
     /\ UNCHANGED <<activeConnections, connectionLimits, heartbeatIntervals, wsOptions,
                    socketIds, timers>>
     /\ UNCHANGED lifecycleVars
     /\ UNCHANGED requestVars

WsMessage == \E ws \in DOMAIN connections, throws \in BOOLEAN : WsMessageOf(ws, throws)

\* websocket.close(ws, code, reason), which Bun calls once the connection
\* is closed, by the peer or after ws.close(): the heartbeat of the
\* connection's id is stopped, the id untracked, the user's onCloseInternal
\* called (if that throws, the error is logged and nothing else happens);
\* of a closed connection only its path is kept, and its id while a timer
\* created for it is running
WsClose ==
  /\ \E ws \in DOMAIN connections :
       LET conn == connections[ws]
           id == socketIds[ws]
           namespace == namespaceOf(conn.path)
           hb == stopHeartbeat(heartbeats, id)
       IN /\ conn.state \in {"open", "closing"}
          /\ heartbeatIntervals' = hb.intervals
          /\ timers' = hb.running
          /\ activeConnections' =
               IF namespace \in DOMAIN activeConnections
               THEN Put(activeConnections, namespace, activeConnections[namespace] \ {id})
               ELSE activeConnections
          /\ connections' = Put(connections, ws,
               createHandler("onCloseInternal", Connection(conn.path, "closed", 0, FALSE),
                             FALSE))
          /\ delivered' = Put(delivered, ws,
               delivered[ws] \cup handlerCalls("onCloseInternal", conn))
          /\ socketIds' = Put(socketIds, ws, IF ws \in hb.running THEN id ELSE 0)
  /\ UNCHANGED <<connectionLimits, wsOptions>>
  /\ UNCHANGED lifecycleVars
  /\ UNCHANGED requestVars

\* a running timer fires, the one startHeartbeat created for the
\* connection ws: an open connection is pinged, and if ping() throws the
\* heartbeat of its id is stopped and the connection closed with 1011; for
\* a connection that is not open the heartbeat of its id is stopped
Heartbeat ==
  /\ \E ws \in timers, pingThrows \in BOOLEAN :
       LET conn == connections[ws]
           hb == stopHeartbeat(heartbeats, socketIds[ws])
       IN IF conn.state = "open" /\ ~pingThrows
          THEN UNCHANGED <<connections, heartbeatIntervals, timers>>
          ELSE /\ heartbeatIntervals' = hb.intervals
               /\ timers' = hb.running
               /\ connections' = Put(connections, ws, wsClose(conn, 1011))
  /\ UNCHANGED <<activeConnections, connectionLimits, wsOptions, delivered,
                 socketIds>>
  /\ UNCHANGED lifecycleVars
  /\ UNCHANGED requestVars

\* shutdown(): every timer of the Map cleared, the Map and the tracking
\* cleared; no connection is closed
Shutdown ==
  /\ heartbeatIntervals' = shutdownTimers(heartbeats).intervals
  /\ timers' = shutdownTimers(heartbeats).running
  /\ activeConnections' = EmptyMap
  /\ UNCHANGED <<connections, connectionLimits, wsOptions, delivered, socketIds>>
  /\ UNCHANGED lifecycleVars
  /\ UNCHANGED requestVars

\* A websocket adapter with services registered for the namespaces 'chat'
\* and 'news', prepared with or without a heartbeat interval
InitWebsocket ==
  /\ routeQueue = <<>>
  /\ wsRouteQueue = <<>>
  /\ globalMiddlewares = <<>>
  /\ routesBuilt = FALSE
  /\ server = NoServer
  /\ errorHandler = FALSE
  /\ websockets = [n \in Namespaces |-> IF n = ChatNamespace THEN 1 ELSE 2]
  /\ startResult = NoStart
  /\ buildCount = 0
  /\ IdleRequest
  /\ connections = EmptyMap
  /\ activeConnections = EmptyMap
  /\ connectionLimits = EmptyMap
  /\ heartbeatIntervals = EmptyMap
  /\ wsOptions \in {[heartbeatInterval |-> 0], [heartbeatInterval |-> 1000]}
  /\ delivered = EmptyMap
  /\ socketIds = EmptyMap
  /\ timers = {}

NextWebsocket ==
  \/ SetConnectionLimit
  \/ WsOpen
  \/ WsClose
  \/ Heartbeat
  \/ Shutdown

SpecWebsocket == InitWebsocket /\ [][NextWebsocket]_vars

\* ------------------------------------------------------------------------
\* The events of the connections of two socket services
\* ------------------------------------------------------------------------
\* A websocket adapter with services registered for the namespaces 'chat'
\* and 'news', with or without a limit of one connection on 'chat',
\* prepared without a heartbeat interval
InitSocketEvents ==
  /\ routeQueue = <<>>
  /\ wsRouteQueue = <<>>
  /\ globalMiddlewares = <<>>
  /\ routesBuilt = FALSE
  /\ server = NoServer
  /\ errorHandler = FALSE
  /\ websockets = [n \in Namespaces |-> IF n = ChatNamespace THEN 1 ELSE 2]
  /\ startResult = NoStart
  /\ buildCount = 0
  /\ IdleRequest
  /\ connections = EmptyMap
  /\ activeConnections = EmptyMap
  /\ connectionLimits \in {EmptyMap, Put(EmptyMap, ChatNamespace, 1)}
  /\ heartbeatIntervals = EmptyMap
  /\ wsOptions = [heartbeatInterval |-> 0]
  /\ delivered = EmptyMap
  /\ socketIds = EmptyMap
  /\ timers = {}

NextSocketEvents ==
  \/ WsOpen
  \/ WsMessage
  \/ WsClose

SpecSocketEvents == InitSocketEvents /\ [][NextSocketEvents]_vars

\* ------------------------------------------------------------------------
\* Properties of the life cycle
\* ------------------------------------------------------------------------
\* The paths claimed both by a queued plain GET route and by a queued
\* upgrade route (an upgrade route is served under its path with a leading
\* slash)
CollidingPaths ==
  { r.path : r \in { routeQueue[i] : i \in
        { j \in 1..Len(routeQueue) :
            /\ toUpperCase(routeQueue[j].method) = "GET"
            /\ \E k \in 1..Len(wsRouteQueue) :
                 normalizeWsPath(wsRouteQueue[k].path) = routeQueue[j].path } } }

\* a start() call that compiles: the step that counts one more build
CompilingStart == buildCount' = buildCount + 1

\* C1: if the same path is registered both as a plain GET route and as an
\* upgrade route, start() fails with a fatal error whose message names that
\* path, and no server is started.
C1_CollisionIsFatal ==
  [][ (CompilingStart /\ CollidingPaths # {}) =>
        /\ startResult'.threw
        /\ startResult'.errorPath \in CollidingPaths
        /\ ~server'.exists
        /\ ~routesBuilt' ]_vars

\* the handlers registered for the pair (path, METHOD)
RegisteredFor(path, method) ==
  { routeQueue[i].id : i \in
      { j \in 1..Len(routeQueue) :
          /\ routeQueue[j].path = path
          /\ toUpperCase(routeQueue[j].method) = method } }

\* the table entry of (path, METHOD) is a compiled plain-route handler that
\* invokes a handler registered for that pair
Resolves(table, path, method) ==
  /\ path \in DOMAIN table
  /\ method \in DOMAIN table[path].methods
  /\ table[path].methods[method].kind \in {"fast", "full"}
  /\ table[path].methods[method].target \in RegisteredFor(path, method)

\* C2: after compilation, for every registered (path, method) pair the
\* dispatch-table entry for that pair invokes the handler that was
\* registered for it.
C2_TableResolvesRegistered ==
  [][ (~routesBuilt /\ routesBuilt') =>
        \A i \in 1..Len(routeQueue) :
          Resolves(server'.routes, routeQueue[i].path,
                   toUpperCase(routeQueue[i].method)) ]_vars

\* C8: once the table is built, repeated start() calls never compile again
\* and never change the dispatch table.
C8_CompiledOnce ==
  [][ routesBuilt =>
        /\ buildCount' = buildCount
        /\ server'.routes = server.routes
        /\ routesBuilt' ]_vars

\* C8 witness: start() was called again on an adapter whose routes were
\* already built
C8_Witness == routesBuilt /\ startResult.called /\ startResult.wasBuilt

\* C9 as stated: once the table has been compiled the pending queues are
\* never modified again.
C9_QueuesFrozen ==
  [][ routesBuilt =>
        /\ routeQueue' = routeQueue
        /\ wsRouteQueue' = wsRouteQueue ]_vars

\* C9 amended: once the table has been compiled, a registration is not
\* rejected: it is appended to its pending queue (the entries already
\* queued are neither changed nor removed), and it never reaches the
\* dispatch table, which stays as compiled.
C9_PostCompileRegistrationIgnored ==
  [][ routesBuilt =>
        /\ IsPrefix(routeQueue, routeQueue')
        /\ IsPrefix(wsRouteQueue, wsRouteQueue')
        /\ server'.routes = server.routes ]_vars

\* C9 witness: a route was queued after compilation, and the table has no
\* entry for its path
C9_Witness ==
  /\ routesBuilt
  /\ \E i \in 1..Len(routeQueue) : routeQueue[i].path \notin DOMAIN server.routes

\* ------------------------------------------------------------------------
\* Properties of the middleware chain
\* ------------------------------------------------------------------------
\* the request's chain: the global middlewares whose filter matches the
\* route's path, in registration order, then the route's own middlewares
ExpectedChain ==
  LET applicable == SelectSeq(globalMiddlewares,
                      LAMBDA g : shouldApplyMiddleware(CurrentRoute.path, g.config))
  IN [i \in 1..Len(applicable) |-> applicable[i].middleware] \o CurrentRoute.middlewares

\* position of a middleware in the request's chain (0: not in the chain)
ChainIndex(m) ==
  IF \E i \in 1..Len(ExpectedChain) : ExpectedChain[i] = m
  THEN CHOOSE i \in 1..Len(ExpectedChain) : ExpectedChain[i] = m
  ELSE 0

\* positions of the trace holding an event of one of the given kinds
Occurrences(evs) == {p \in 1..Len(trace) : trace[p].ev \in evs}

\* a middleware's handle() has settled: it returned, aborted, raised, or a
\* rejected continuation passed through it
SettledEvents == {"return", "abort", "raise", "unwound"}

\* a full route handler is serving the request
ServingFull == current.kind = "full"

\* C3: the middlewares of a request run in the order of its chain (the
\* applicable global middlewares in registration order, then the
\* route-local ones in registration order), none outside the chain runs,
\* and the handler runs only after them.
C3_MiddlewareOrder ==
  ServingFull =>
    /\ \A p \in Occurrences({"pre"}) : ChainIndex(trace[p].mw) > 0
    /\ \A p, q \in Occurrences({"pre"}) :
         p < q => ChainIndex(trace[p].mw) < ChainIndex(trace[q].mw)
    /\ \A h \in Occurrences({"handler"}) : \A p \in Occurrences({"pre"}) : p < h

\* C3 witness: a request whose chain has a global and two route-local
\* middlewares, with another global middleware filtered out, ran its whole
\* chain and then the handler
C3_Witness ==
  /\ ServingFull
  /\ pc = "done"
  /\ Len(globalMiddlewares) > Len(current.globals)
  /\ Len(current.globals) > 0
  /\ Len(CurrentRoute.middlewares) > 1
  /\ Cardinality(Occurrences({"pre"})) = Len(ExpectedChain)
  /\ Occurrences({"handler"}) # {}

\* C4: if middleware k of the request's chain aborts, middlewares k+1..n
\* and the handler never run, and each of middlewares 1..k ran its
\* pre-continuation code exactly once.
C4_AbortStopsChain ==
  ServingFull =>
    \A a \in Occurrences({"abort"}) :
      LET k == ChainIndex(trace[a].mw)
      IN /\ \A p \in Occurrences({"pre"}) : ChainIndex(trace[p].mw) <= k
         /\ Occurrences({"handler"}) = {}
         /\ \A i \in 1..k :
              Cardinality({p \in Occurrences({"pre"}) :
                             trace[p].mw = ExpectedChain[i]}) = 1

\* C5: an abort decision (false, or a response) made by a middleware is
\* what every frame above it returns and what the caller of the chain
\* gets; a response is then sent with its status, body and headers.
C5_AbortReachesCaller ==
  (decision.tag \in {"false", "response"} /\ ret # NoResult) =>
    /\ ret = decision
    /\ (pc = "done" /\ decision.tag = "response") =>
         /\ response.status = decision.response.status
         /\ response.body = decision.response.body
         /\ response.headers = decision.response.headers

\* C5 witness: a response returned by a middleware has passed through a
\* middleware awaiting its continuation and has reached the caller of the
\* chain
C5_Witness ==
  /\ pc = "chain"
  /\ waiting = 0
  /\ decision.tag = "response"
  /\ ret = decision
  /\ Occurrences({"unwound"}) # {}

\* C6: when the continuation of a middleware resolves, every later
\* middleware of the request's chain (the remaining global ones and the
\* route-local ones) has already settled.
C6_ContinuationResolvesLast ==
  ServingFull =>
    \A r \in Occurrences({"resolved"}) :
      \A j \in (ChainIndex(trace[r].mw) + 1)..Len(ExpectedChain) :
        \E q \in Occurrences(SettledEvents) :
          q < r /\ trace[q].mw = ExpectedChain[j]

StaticServed == Occurrences({"static"}) # {}

\* the file the request resolves to lies in the directory tree of the root
InsideRoot ==
  IsPrefix(pathResolve(CurrentRoute.staticServe.root),
           ResolvedFilePath(CurrentRoute.staticServe, req))

\* the bytes of the files outside the directory tree of the root
OutsideBytes ==
  { Files[f] : f \in {g \in DOMAIN Files :
                        ~IsPrefix(pathResolve(CurrentRoute.staticServe.root), g)} }

\* C10: a static-serve request whose decoded and resolved path escapes the
\* root gets a response that is not 200 and that carries no bytes of a
\* file outside the root.
C10_TraversalBlocked ==
  (StaticServed /\ pc = "done" /\ ~InsideRoot) =>
    /\ response.status # 200
    /\ \A i \in 1..Len(response.body) : response.body[i] \notin OutsideBytes

\* ------------------------------------------------------------------------
\* Properties of request validation
\* ------------------------------------------------------------------------
\* what validateRequest evaluated for the request, in order
ValidationEvents == SelectSeq(trace, LAMBDA e : e.ev \in {"safeParse", "invalid"})

MethodIndex(key) == CHOOSE i \in 1..Len(VALIDATOR_METHODS) : VALIDATOR_METHODS[i] = key

\* the targets with a schema to evaluate
SchemaTargets ==
  {k \in ValidationTargets : CurrentRoute.validator.targets[k] \notin {"absent", "noSchema"}}

\* validateRequest has run
Validated == \E i \in 1..Len(trace) : trace[i].ev = "validate"

\* the target whose validation failed
FailedTargets == {ValidationEvents[i].mw : i \in {j \in 1..Len(ValidationEvents) :
                                                  ValidationEvents[j].ev = "invalid"}}

\* reading the body for its validation threw: validation ended with that
\* exception
ValidationThrew ==
  /\ raised = InvalidJson
  /\ ~\E n \in 1..Len(trace) : trace[n].ev = "handler"

\* C11: the schemas of the targets are evaluated in the order body, query,
\* param, header, every target with a schema up to the first failing one is
\* evaluated (unless the body could not be read), and none after it: the
\* failure is the last thing validation does, and the request ends there
\* without its handler
C11_ValidationOrder ==
  Validated =>
    LET evs == ValidationEvents
        parsed == {i \in 1..Len(evs) : evs[i].ev = "safeParse"}
    IN /\ \A i, j \in parsed : i < j => MethodIndex(evs[i].mw) < MethodIndex(evs[j].mw)
       /\ \A i \in 1..Len(evs) :
            evs[i].ev = "invalid" =>
              /\ i = Len(evs)
              /\ i > 1 /\ evs[i - 1] = Event("safeParse", evs[i].mw)
              /\ pc = "done"
              /\ ~\E n \in 1..Len(trace) : trace[n].ev = "handler"
       /\ ~ValidationThrew =>
            \A k \in SchemaTargets :
              (\E i \in parsed : evs[i].mw = k)
                <=> \A f \in FailedTargets : MethodIndex(k) <= MethodIndex(f)

\* the body passes, the query fails, and the param schema is never evaluated
C11_Witness ==
  /\ ValidationEvents = <<Event("safeParse", "body"), Event("safeParse", "query"),
                          Event("invalid", "query")>>
  /\ "param" \in SchemaTargets
  /\ pc = "done"

\* C12: when a target fails validation, the response is what the target's
\* hook returned if it has a hook and the hook returned a response;
\* otherwise it is 400 with the JSON body {error: 'Validation failed',
\* details}; the hook is called exactly when the target has one
C12_ValidationFailureResponse ==
  \A k \in FailedTargets :
    LET kind == CurrentRoute.validator.targets[k]
        hooked == kind \in {"hookResponse", "hookNothing"}
    IN /\ pc = "done"
       /\ calls = IF hooked THEN <<Call("hook", <<k>>)>> ELSE <<>>
       /\ IF kind = "hookResponse"
          THEN response = HookResponse(k)
          ELSE /\ response.status = 400
               /\ response.body = stringify(<<"error", "Validation failed", "details", k>>)
               /\ <<"Content-Type", "application/json">> \in response.headers

\* a failed target whose hook answers, and the answer is the response
C12_Witness ==
  /\ \E k \in FailedTargets :
       /\ CurrentRoute.validator.targets[k] = "hookResponse"
       /\ response = HookResponse(k)
  /\ pc = "done"

\* ------------------------------------------------------------------------
\* Properties of error translation
\* ------------------------------------------------------------------------
\* the errorHandler was called for the request
ErrorHandlerCalled == \E i \in 1..Len(calls) : calls[i].fn = "errorHandler"

\* the domain exception raised while the request was handled, by a
\* middleware, by the route's handler or by a hook
DomainExceptionRaised ==
  IF raised.class = "HttpException" THEN raised
  ELSE IF decision.tag = "throw" /\ decision.error.class = "HttpException"
  THEN decision.error
  ELSE NoError

\* C13: a domain exception raised while a request is handled becomes the
\* response of the request, with the exception's status, body and headers,
\* and the global error handler is not called
C13_DomainExceptionConverted ==
  LET e == DomainExceptionRaised
  IN pc = "done" /\ e # NoError =>
       /\ response.status = e.status
       /\ response.body = IF e.isObject THEN stringify(e.body) ELSE e.body
       /\ e.headers \subseteq response.headers
       /\ ~ErrorHandlerCalled

\* the error other than a domain exception raised while the request was
\* handled, by a middleware, by the route's handler or inside static
\* serving
PlainErrorRaised ==
  IF raised.class = "Error" THEN raised
  ELSE IF decision.tag = "throw" /\ decision.error.class = "Error"
  THEN decision.error
  ELSE NoError

\* C14: when a global error handler is registered, an error other than a
\* domain exception raised by a global middleware, a route middleware or
\* the handler is passed to it, once, and what it returns is the response
\* of the request
C14_ErrorsReachGlobalHandler ==
  LET e == PlainErrorRaised
  IN pc = "done" /\ e # NoError /\ errorHandler =>
       /\ calls = <<Call("errorHandler", e.message)>>
       /\ response = ErrorHandlerResponse(e)

\* C15: the adapter logs an error of a request only when no global error
\* handler is registered: with one registered, nothing is logged at error
\* level
C15_LogsOnlyWithoutHandler ==
  errorHandler => \A i \in 1..Len(logged) : logged[i].level # "error"

\* C16: with no global error handler registered, an error other than a
\* domain exception ends the request with status 500 and a JSON body
\* carrying the error's message
C16_DefaultErrorResponse ==
  LET e == PlainErrorRaised
  IN pc = "done" /\ e # NoError /\ ~errorHandler =>
       /\ response.status = 500
       /\ response.body = stringify(<<"error">> \o e.message)
       /\ <<"Content-Type", "application/json">> \in response.headers

\* C17: a request whose middleware returned false ends with status 403 and
\* the body 'Forbidden', and its handler does not run
C17_FalseIsForbidden ==
  pc = "done" /\ decision.tag = "false" =>
    /\ response.status = 403
    /\ response.body = <<"Forbidden">>
    /\ ~\E i \in 1..Len(trace) : trace[i].ev \in {"handler", "upgraded", "upgradeFailed"}

\* a route-local middleware returned false below an awaiting one, and the
\* request ended 403
C17_Witness ==
  /\ pc = "done"
  /\ decision.tag = "false"
  /\ \E i \in 1..Len(trace) : trace[i] = Event("abort", "m2")
  /\ \E i \in 1..Len(trace) : trace[i] = Event("unwound", "m1")
  /\ response.status = 403

\* ------------------------------------------------------------------------
\* Properties of the static-serve hooks
\* ------------------------------------------------------------------------
\* static serving looked the requested file up: the URL decoded and the
\* resolved path passed the root check
LookedUp ==
  /\ StaticServed
  /\ ~\E i \in 1..Len(URLpathname(req.url)) : Malformed(URLpathname(req.url)[i])
  /\ withinRoot(CurrentRoute.staticServe, ResolvedFilePath(CurrentRoute.staticServe, req))

RequestedFile == ResolvedFilePath(CurrentRoute.staticServe, req)

\* the calls made to the static hooks for the request
HookCalls == SelectSeq(calls, LAMBDA c : c.fn \in {"onFound", "onNotFound"})

\* the route's handler ran for the request
HandlerRan == \E i \in 1..Len(trace) : trace[i].ev = "handler"

\* the response is one the route's handler produces
HandlerResponded ==
  \E o \in HandlerOutcomes :
    response = IF o.tag = "throw" THEN catchInHandler(o.error, errorHandler).response
               ELSE IF o.tag = "response" THEN o.response
               ELSE Response(200, stringify(o.value), JsonHeaders)

\* static serving handed the request over to the route's handler
HandedOver ==
  \/ pc = "handler" /\ response = NoResponse /\ ~HandlerRan
  \/ pc = "done" /\ HandlerRan /\ HandlerResponded

ServingUpgrade == current.kind = "upgrade"

\* the calls of server.upgrade() made for the request
UpgradeCalls == SelectSeq(calls, LAMBDA c : c.fn = "upgrade")

\* the middleware ran for the request
Ran(m) == \E p \in Occurrences({"pre"}) : trace[p].mw = m

Applies(config, path) ==
  \/ ~config.hasConfig
  \/ /\ config.include # {} => \E p \in config.include : matchPattern(path, p)
     /\ \A p \in config.exclude : ~matchPattern(path, p)

\* the handler the table holds for the i-th queued route
CompiledFor(table, i) ==
  table[routeQueue[i].path].methods[toUpperCase(routeQueue[i].method)]

\* the queued routes the table serves by their own handler
Compiled(table) ==
  { i \in 1..Len(routeQueue) :
      /\ Resolves(table, routeQueue[i].path, toUpperCase(routeQueue[i].method))
      /\ CompiledFor(table, i).target = routeQueue[i].id }

\* no global middleware applies and the route has no middleware, no
\* validator and no static-serve configuration
Plain(route) ==
  /\ \A j \in 1..Len(globalMiddlewares) :
       ~Applies(globalMiddlewares[j].config, route.path)
  /\ route.middlewares = <<>>
  /\ ~route.validator.enabled
  /\ ~route.staticServe.enabled

\* C21: a route is compiled as a fast-path handler exactly when no global
\* middleware applies to its path and it has no route-local middleware, no
\* validator and no static-serve configuration; every other route is
\* compiled as a full-path handler.
C21_FastPathExactlyWhenPlain ==
  [][ (~routesBuilt /\ routesBuilt') =>
        \A i \in Compiled(server'.routes) :
          LET h == CompiledFor(server'.routes, i)
          IN /\ h.kind = "fast" <=> Plain(routeQueue[i])
             /\ h.kind = "full" <=> ~Plain(routeQueue[i]) ]_vars

\* a route without middleware, validator and static-serve was compiled as
\* a fast-path handler although global middlewares are registered: their
\* filters keep all of them off its path
C21_Witness ==
  /\ routesBuilt
  /\ globalMiddlewares # <<>>
  /\ 1 \in Compiled(server.routes)
  /\ Plain(routeQueue[1])
  /\ CompiledFor(server.routes, 1).kind = "fast"

\* C22: a global middleware applies to a route exactly when it was
\* registered without a filter, or the route's path matches one of its
\* include patterns (if it has any) and none of its exclude patterns; an
\* exclude match wins over an include match. The compiled handler of a
\* route carries exactly the global middlewares that apply to it.
C22_GlobalFilter ==
  [][ (~routesBuilt /\ routesBuilt') =>
        \A i \in Compiled(server'.routes) :
          LET h == CompiledFor(server'.routes, i)
          IN \A j \in 1..Len(globalMiddlewares) :
               (\E k \in 1..Len(h.globals) :
                    h.globals[k] = globalMiddlewares[j].middleware)
                 <=> Applies(globalMiddlewares[j].config, routeQueue[i].path) ]_vars

\* the route's path matches both an include and an exclude pattern of one
\* global middleware, which its handler leaves out, while the handler
\* carries another one
C22_Witness ==
  /\ routesBuilt
  /\ 1 \in Compiled(server.routes)
  /\ LET h == CompiledFor(server.routes, 1)
     IN /\ h.globals # <<>>
        /\ \E j \in 1..Len(globalMiddlewares) :
             LET c == globalMiddlewares[j].config
             IN /\ \E p \in c.include : matchPattern(routeQueue[1].path, p)
                /\ \E p \in c.exclude : matchPattern(routeQueue[1].path, p)
                /\ \A k \in 1..Len(h.globals) :
                     h.globals[k] # globalMiddlewares[j].middleware

\* ------------------------------------------------------------------------
\* Properties of requests without a route
\* ------------------------------------------------------------------------
\* no queued route has the request's method and a path matching its URL
Unrouted ==
  \A i \in 1..Len(routeQueue) :
    ~ /\ toUpperCase(routeQueue[i].method) = req.method
      /\ matchesRoute(routeQueue[i].path, URLpathname(req.url))

Answered == pc = "done"

\* C23: a request that matches no registered route is answered by the
\* catch-all entry: a 404 response whose JSON body is {"error":"Not Found"};
\* no middleware and no handler runs for it.
C23_UnroutedIsNotFound ==
  (Answered /\ Unrouted) =>
    /\ response.status = 404
    /\ response.body = stringify(<<"error", "Not Found">>)
    /\ <<"Content-Type", "application/json">> \in response.headers
    /\ trace = <<>>

\* a POST for the path of a route registered for GET only, with global
\* middlewares registered, was answered 404
C23_Witness ==
  /\ Answered
  /\ Unrouted
  /\ req = Request("POST", <<"data">>)
  /\ globalMiddlewares # <<>>
  /\ response.status = 404

\* ------------------------------------------------------------------------
\* Properties of the request context
\* ------------------------------------------------------------------------
\* a plain route's handler (full or fast-path) is serving the request
ServingRoute == current.kind \in {"full", "fast"}

\* the path parameters Bun matched for the request: name -> segment
MatchedParams ==
  LET pattern == CurrentRoute.path.segs
      segs == URLpathname(req.url)
  IN { <<"param:id", segs[i]>> : i \in {j \in 1..Len(pattern) : pattern[j] = ":id"} }

\* a stage found the value v under the key k
Found(view, k, v) == k \in DOMAIN view.values /\ view.values[k] = v

\* C24: all stages of one request operate on the same context: every
\* middleware and the handler find in the context they are handed the
\* injected path parameters and the value each middleware that ran before
\* them has set.
C24_OneContext ==
  ServingRoute =>
    \A k \in 1..Len(context.seen) :
      /\ \A kv \in MatchedParams : Found(context.seen[k], kv[1], kv[2])
      /\ \A j \in 1..(k - 1) : Found(context.seen[k], context.seen[j].stage, "set")

\* the handler of '/data/:id' ran for '/data/7' after a global and a
\* route-local middleware and found the parameter and both their values
C24_Witness ==
  /\ ServingRoute
  /\ Len(context.seen) = 3
  /\ context.seen[1].stage = "g1"
  /\ context.seen[2].stage = "m1"
  /\ context.seen[3].stage = "handler"
  /\ Found(context.seen[3], "param:id", "7")
  /\ Found(context.seen[3], "g1", "set")
  /\ Found(context.seen[3], "m1", "set")

\* ------------------------------------------------------------------------
\* Properties of request bodies
\* ------------------------------------------------------------------------
\* getBody() was called for the request: it cached what it returned, or it
\* threw
BodyWasRead == context.bodyRead \/ raised = InvalidJson

\* C25: a request whose body is not valid JSON, once its body is read (by
\* validation or by the handler), is answered 400 with the fixed error
\* message 'Invalid JSON in request body'.
C25_MalformedBodyIs400 ==
  (Answered /\ req.body = "malformed" /\ BodyWasRead) =>
    response = getResponse(InvalidJson)

\* ------------------------------------------------------------------------
\* Properties of the websocket adapter
\* ------------------------------------------------------------------------
\* the connection ids a tracking map holds for a namespace
Tracked(tracking, namespace) ==
  IF namespace \in DOMAIN tracking THEN tracking[namespace] ELSE {}

\* the connections the step opens
Opened == DOMAIN connections' \ DOMAIN connections

\* C26: when a namespace has connection limit L, a connection that opens
\* while fewer than L connections are tracked there is accepted and
\* tracked, and one that opens while L (or more) are tracked is closed with
\* code 1008 and is not tracked.
C26_ConnectionLimit ==
  [][ \A ws \in Opened :
        LET conn == connections'[ws]
            namespace == namespaceOf(conn.path)
            count == Cardinality(Tracked(activeConnections, namespace))
        IN namespace \in DOMAIN connectionLimits =>
             IF count < connectionLimits[namespace]
             THEN /\ conn.accepted
                  /\ conn.code # 1008
                  /\ Tracked(activeConnections', namespace)
                       = Tracked(activeConnections, namespace) \cup {socketIds'[ws]}
             ELSE /\ ~conn.accepted
                  /\ conn.state = "closing"
                  /\ conn.code = 1008
                  /\ Tracked(activeConnections', namespace)
                       = Tracked(activeConnections, namespace) ]_vars

\* with limit 1 on 'chat', a connection opened under '/chat' is tracked
\* there, and a second one was closed with 1008
C26_Witness ==
  /\ ChatNamespace \in DOMAIN connectionLimits
  /\ connectionLimits[ChatNamespace] = 1
  /\ Tracked(activeConnections, ChatNamespace) = {1}
  /\ connections[1].accepted
  /\ connections[1].path = Path(TRUE, <<"chat">>)
  /\ 2 \in DOMAIN connections
  /\ connections[2] = Connection(ChatNamespace, "closing", 1008, FALSE)

\* the connections accepted in a namespace whose close has not been
\* handled yet
Live(namespace) ==
  { id \in DOMAIN connections :
      /\ connections[id].accepted
      /\ connections[id].state # "closed"
      /\ namespaceOf(connections[id].path) = namespace }

\* C27: getConnectionCount(namespace) always equals the number of
\* connections accepted in that namespace and not yet closed, counted
\* separately for each namespace.
C27_CountIsLiveConnections ==
  \A namespace \in Namespaces :
    getConnectionCount(namespace) = Cardinality(Live(namespace))

\* C28: a heartbeat timer is started for a connection that open accepts
\* exactly when a heartbeat interval is configured; after the connection's
\* close, no timer remains for it.
C28_HeartbeatTimer ==
  [][ /\ \A ws \in Opened :
           connections'[ws].accepted =>
             (ws \in timers' <=> wsOptions.heartbeatInterval # 0)
      /\ \A ws \in DOMAIN connections' :
           connections'[ws].state = "closed" => ws \notin timers' ]_vars

\* no timer is left, in the Map or running, and every namespace counts 0
ShutDown ==
  /\ heartbeatIntervals = EmptyMap
  /\ timers = {}
  /\ \A namespace \in Namespaces : getConnectionCount(namespace) = 0

\* C29: after shutdown() no heartbeat timer remains and every namespace's
\* connection count is 0; calling it again changes nothing and does not
\* fail.
C29_ShutdownClears ==
  [][ Shutdown => /\ ShutDown'
                  /\ ShutDown => UNCHANGED <<heartbeatIntervals, timers, connections,
                                             connectionLimits>> ]_vars

\* ------------------------------------------------------------------------
\* Properties of the chain as a whole
\* ------------------------------------------------------------------------
\* the i-th middleware of the request's chain was entered
Entered(i) == \E p \in Occurrences({"pre"}) : trace[p].mw = ExpectedChain[i]

\* C30: whenever the route handler runs, every applicable global
\* middleware and every route-local middleware of the route has run before
\* it; a middleware is skipped only when an earlier one aborted (returned
\* false or a response, or threw).
C30_WholeChainBeforeHandler ==
  ServingFull =>
    /\ \A h \in Occurrences({"handler"}) :
         \A i \in 1..Len(ExpectedChain) :
           \E p \in Occurrences({"pre"}) : p < h /\ trace[p].mw = ExpectedChain[i]
    /\ Answered =>
         \A i \in 1..Len(ExpectedChain) :
           ~Entered(i) =>
             \E a \in Occurrences({"abort", "raise"}) : ChainIndex(trace[a].mw) < i

\* ------------------------------------------------------------------------
\* Containment of the transmitted files
\* ------------------------------------------------------------------------
\* the files whose bytes the response carries
Transmitted ==
  { f \in DOMAIN Files :
      response # NoResponse /\ \E i \in 1..Len(response.body) : response.body[i] = Files[f] }

\* the directory tree of the configured root: the root and its
\* directory-wise descendants
RootTree(f) == IsPrefix(pathResolve(CurrentRoute.staticServe.root), f)

\* C31: every file that static serving transmits lies within the directory
\* tree of the configured root, not merely under a path that shares the
\* root's string prefix.
C31_TransmittedWithinRoot ==
  StaticServed => \A f \in Transmitted : RootTree(f)

\* ------------------------------------------------------------------------
\* The fast path against the full path
\* ------------------------------------------------------------------------
\* the step the full-path handler takes at route.handler(context), for a
\* route without middlewares, validator and static serving: its catch
\* block reads this.errorHandler when the request is served
FullPathStep == CallHandler(errorHandler)

\* C32: for a fast-path-eligible route the fast-path handler answers as
\* the full-path handler would: every step of the fast-path handler is a
\* step of the full-path handler, for every request and every outcome of
\* the route's handler, under the global error handler registered when
\* the request is served.
C32_FastPathAsFullPath == [][pc = "fast" => FullPathStep]_vars

\* ------------------------------------------------------------------------
\* Validation before static serving and the handler
\* ------------------------------------------------------------------------
\* C33: when validation fails for a target, neither static serving (the
\* file lookup and its hooks) nor the route's handler runs for the
\* request: the request has ended.
C33_FailedValidationEndsRequest ==
  FailedTargets # {} =>
    /\ pc = "done"
    /\ ~\E n \in 1..Len(trace) :
          trace[n].ev \in {"static", "onFound", "onNotFound", "handler"}

\* a request to a route that validates and serves files fails validation,
\* while validation passing on that route does reach static serving
C33_Witness ==
  /\ FailedTargets # {}
  /\ CurrentRoute.staticServe.enabled
  /\ pc = "done"

\* ------------------------------------------------------------------------
\* Requests that resolve outside the root
\* ------------------------------------------------------------------------
\* the request path decodes, and resolves to a path outside the directory
\* tree of the root
ResolvesOutsideRoot ==
  /\ ~\E i \in 1..Len(URLpathname(req.url)) : Malformed(URLpathname(req.url)[i])
  /\ ~RootTree(ResolvedFilePath(CurrentRoute.staticServe, req))

\* C34: a static-serve request whose resolved path is outside the root
\* invokes neither the found hook nor the not-found hook and is answered
\* 403 'Forbidden', the same response whether or not the file exists.
C34_OutsideRootIsForbidden ==
  (StaticServed /\ ResolvesOutsideRoot) =>
    /\ pc = "done"
    /\ response = ForbiddenResponse
    /\ ~\E n \in 1..Len(trace) : trace[n].ev \in {"onFound", "onNotFound"}
    /\ calls = <<>>

\* ------------------------------------------------------------------------
\* What start() returns
\* ------------------------------------------------------------------------
\* C35: whenever start() returns (it did not throw), the table has been
\* compiled and the server it returned was running when it returned, also
\* when start() is called again after stop().
C35_StartReturnsRunningServer ==
  (startResult.called /\ ~startResult.threw) =>
    /\ routesBuilt
    /\ server.exists
    /\ startResult.returnedRunning

\* ------------------------------------------------------------------------
\* Global middlewares of upgrade routes
\* ------------------------------------------------------------------------
\* the path under which an upgrade route is served: its path with a
\* leading slash
ServedPath(wsRoute) == Path(TRUE, wsRoute.path.segs)

\* the handler the table holds for the i-th queued upgrade route
UpgradeHandlerFor(table, i) == table[ServedPath(wsRouteQueue[i])].methods["GET"]

\* C36: the global middlewares the handler of an upgrade route carries are
\* exactly those whose filter matches the path under which the route is
\* served (with its leading slash), whether the route was registered with
\* or without a leading slash.
C36_UpgradeGlobalFilter ==
  [][ (~routesBuilt /\ routesBuilt') =>
        \A i \in 1..Len(wsRouteQueue) :
          LET h == UpgradeHandlerFor(server'.routes, i)
          IN /\ h.kind = "upgrade"
             /\ \A j \in 1..Len(globalMiddlewares) :
                  (\E k \in 1..Len(h.globals) :
                       h.globals[k] = globalMiddlewares[j].middleware)
                    <=> Applies(globalMiddlewares[j].config, ServedPath(wsRouteQueue[i])) ]_vars

\* ------------------------------------------------------------------------
\* Properties of the events of a connection
\* ------------------------------------------------------------------------
\* the service registered with the upgrade route a connection came
\* through: the one whose namespace is the route's path, written with or
\* without a leading slash
ServiceOf(conn) == websockets[namespaceOf(conn.path)]

\* the service of the connection was called with the event
Got(calls_, conn, type) == [type |-> type, service |-> ServiceOf(conn)] \in calls_

\* C37: every connection upgraded through a registered upgrade route has
\* its open, message and close events delivered to the socket service
\* registered with that route, whether the route's path is written with or
\* without a leading slash relative to the service's namespace.
C37_EventsReachService ==
  [][ /\ \A id \in Opened :
           connections'[id].accepted =>
             Got(delivered'[id], connections'[id], "onOpenInternal")
      /\ \A id \in DOMAIN connections :
           /\ \A throws \in BOOLEAN :
                WsMessageOf(id, throws) =>
                  Got(delivered'[id], connections[id], "onMessage")
           /\ (connections[id].accepted /\ connections'[id].state = "closed") =>
                Got(delivered'[id], connections[id], "onCloseInternal") ]_vars

\* the types of the events a service was called with for a connection
Types(id) == {e.type : e \in delivered[id]}

\* C38: a socket service's close callback is invoked only for a connection
\* whose open callback was invoked; a connection rejected for exceeding the
\* connection limit never reaches the service.
C38_CloseOnlyAfterOpen ==
  \A id \in DOMAIN connections :
    /\ "onCloseInternal" \in Types(id) => "onOpenInternal" \in Types(id)
    /\ connections[id].code = 1008 => delivered[id] = {}

\* ------------------------------------------------------------------------
\* Properties of the heartbeat timers
\* ------------------------------------------------------------------------
\* the timers the step cancels
Cancelled == timers \ timers'

\* C39: each connection with heartbeat enabled has its own timer: an
\* accepted connection's timer is the one kept for it; starting a
\* heartbeat never replaces the timer kept for another connection,
\* stopping one (by a close, by a failed or late heartbeat) never cancels
\* the timer of a connection that stays open, and no timer keeps running
\* after its connection has closed.
C39_OneTimerPerConnection ==
  [][ /\ \A ws \in Opened :
           (connections'[ws].accepted /\ wsOptions.heartbeatInterval # 0) =>
             /\ ws \in timers'
             /\ heartbeatIntervals'[socketIds'[ws]] = ws
      /\ \A id \in DOMAIN heartbeatIntervals \cap DOMAIN heartbeatIntervals' :
           heartbeatIntervals'[id] = heartbeatIntervals[id]
      /\ ~Shutdown => \A t \in Cancelled : connections'[t].state # "open"
      /\ \A ws \in DOMAIN connections' :
           connections'[ws].state = "closed" => ws \notin timers' ]_vars

====
